---- MODULE Spec2Model ----
(***************************************************************************)
(* Trip/route coordination and location tracking of the OpsFlow driver     *)
(* app.  Each screen or service is a group of variables with its own       *)
(* specification; a specification leaves the other groups at rest.         *)
(***************************************************************************)
EXTENDS Integers, Sequences, FiniteSets, TLC

VARIABLES
    role,             \* normalized session role (useAuthRole)
    \* TripExecutionScreen: stop execution
    srvStops,         \* the server's stops of the trip: id -> [sequence, status]
    tripStops,        \* trip.stops as last fetched (query 'driverTrip')
    processingStop,   \* useState processingStop
    stopReqs,         \* startStop / completeStop requests in flight
    lastStopAttempt,  \* the last start attempt on a stop and what became of it
    \* DriverTodayScreen and DriverTripDetailScreen: assigning orders
    lockToday,        \* module-level assigningOrderId of DriverTodayScreen
    addToTripOrderId, \* useState addToTripOrderId of DriverTodayScreen
    todayRender,      \* what the last render of DriverTodayScreen captured
    detailAssigning,  \* useState assigningOrderId of DriverTripDetailScreen
    addOrdersVisible, \* useState addOrdersVisible of DriverTripDetailScreen
    detailRender,     \* what the last render of DriverTripDetailScreen captured
    acceptInflight,   \* acceptOrder mutations in flight
    mutCount,         \* mutations built so far
    curMut,           \* the mutation each screen's observer follows
    lastAssignAttempt, \* the last assign attempt and what became of it
    \* DriverTripDetailScreen: route version mark
    storage,          \* MMKV 'opsflow-route-version': trip id -> stored string
    screenTripId,     \* route.params.tripId of the mounted screen
    tripRouteVersion, \* trip?.routeVersion of the last render
    routeUpdatedBanner, \* useState routeUpdatedBanner
    bannerRaised,     \* whether the last fetch called setRouteUpdatedBanner(true)
    fetchTick,        \* flips on every fetch of the trip
    \* DriverTripDetailScreen: route editing
    srvRoute,         \* the server's stops of the trip: id -> [sequence, status, podSigned]
    srvTripStatus,    \* the server's status of the trip
    detailStops,      \* trip.stops as last fetched (query 'transportTrip')
    detailTripStatus, \* trip.status as last fetched
    editMode,         \* useState editMode
    pendingOrder,     \* useState pendingOrder (stop ids)
    reorderReq,       \* the reorderStops payload in flight, if any
    unassignReqs,     \* unassignOrder requests in flight: [stop, status shown when confirmed]
    \* TripExecutionScreen and locationService: tracking during a trip
    platform,         \* Platform.OS
    fgGranted,        \* what requestForegroundPermissionsAsync answers
    bgGranted,        \* what requestBackgroundPermissionsAsync answers
    srvDriverTripStatus, \* the server's status of the driver's trip
    driverTripStatus, \* trip.status as last fetched (query 'driverTrip')
    startTripInflight, \* a startTrip request is in flight
    bgCalls,          \* number of start/stopBackgroundTracking calls waiting at each await
    bgStarted,        \* hasStartedLocationUpdatesAsync(BACKGROUND_LOCATION_TASK_NAME)
    bgDoubleStart,    \* startLocationUpdatesAsync was invoked while updates were started
    fgCurrent,        \* where startWatch of the current watch effect waits
    fgCancelledRuns,  \* number of startWatch runs of cleaned-up effects at each await
    subscriptionRef,  \* subscriptionRef.current holds a subscription
    fgAlive,          \* number of position subscriptions not removed
    mapLocationPermissionDenied,
    \* LocationTracker and DriverMapScreen
    now,              \* Date.now(), in ms since the tracker was constructed
    shareLiveLocation, \* the stored "Share Live Location" preference
    shareEffectPending, \* the effect on [shareLiveLocation, user] has yet to run
    startTrackingCalls, \* startTracking calls awaiting requestPermissions
    permissionRequested,
    isTracking,
    watchId,          \* NoWatch (null) or AWatch
    geoAlive,         \* number of Geolocation watches not cleared
    lastSentLocation,
    lastSentTime,
    sendsInFlight,    \* the locations of the updateLocation requests in flight
    firstPending,     \* no sample has arrived since tracking was started
    heldBack,         \* a sample was held back since the reference values were last set
    permissionDenied, \* DriverMapScreen shows "Location permission denied"
    \* Polling of DriverTripDetailScreen and of the admin's TripDetailScreen
    isFocused,        \* useIsFocused() of DriverTripDetailScreen
    adminFocused,     \* TripDetailScreen is the focused screen
    adminTrip,        \* the trip of TripDetailScreen's query: status and driverId
    pollRef,          \* pollRef.current holds an interval
    timersAlive,      \* number of intervals set and not cleared
    hasCleanup,       \* the last run of the focus effect returned a cleanup
    locInflight,      \* number of fetchLocation calls waiting for the answer
    driverLocation,   \* driverLocation is not null
    pollCount,        \* number of fetches the two polls have issued
    lastPoll,         \* the last of them: the screen and what caused it
    \* The session and the background location task
    user,             \* user of the auth context (NoUser after logout)
    logoutAt,         \* where performLogout waits
    bgTaskSends,      \* updateLocation calls of the BACKGROUND_LOCATION task in flight
    \* The route version at the server
    srvRouteVersion,  \* routeVersion of the trip at the server
    externalVersions, \* the versions that came from changes of another actor
    ownInflight,      \* a route mutation of this screen is in flight
    \* The query cache shared by DriverTodayScreen and DriverTripDetailScreen
    srvTripOf,        \* the server's trip of each order's stop (NoTrip: unassigned)
    srvTrips,         \* the trips that exist on the server
    srvStopStatus,    \* the server's status of each order's stop
    tripsData,        \* query data of ['transportTrips', dateKey]
    ordersData,       \* query data of ['unassignedOrders', dateKey]
    tripData,         \* query data of ['transportTrip', tripId]: the stops of the trip
    refetchDue,       \* the queries whose refetch was asked for and has not answered
    moveStopContext,  \* useState moveStopContext (the stop's order, or NoOrder)
    toastOrderId,     \* toast.orderId of DriverTodayScreen while the toast is visible
    cacheReqs,        \* acceptOrder / moveStop / unassignOrder requests in flight
    reqCount,         \* requests issued so far
    lastSettled,      \* the last request that completed and how
    \* TripExecutionScreen: accepting the trip
    srvTrip,          \* the server's trip: [status, vehicleId]
    execTrip,         \* the trip as last fetched (query 'driverTrip'): [status, vehicleId]
    acceptVehicleId,  \* useState acceptVehicleId
    acceptTripReqs,   \* acceptTrip payloads in flight
    lastAcceptAttempt \* the last attempt to accept and what became of it

stopVars == <<srvStops, tripStops, processingStop, stopReqs, lastStopAttempt>>

assignVars == <<lockToday, addToTripOrderId, todayRender, detailAssigning, addOrdersVisible,
                detailRender, acceptInflight, mutCount, curMut, lastAssignAttempt>>

routeVars == <<storage, screenTripId, tripRouteVersion, routeUpdatedBanner, bannerRaised,
               fetchTick>>

editVars == <<srvRoute, srvTripStatus, detailStops, detailTripStatus, editMode, pendingOrder,
              reorderReq, unassignReqs>>

trackVars == <<platform, fgGranted, bgGranted, srvDriverTripStatus, driverTripStatus,
               startTripInflight, bgCalls, bgStarted, bgDoubleStart, fgCurrent, fgCancelledRuns,
               subscriptionRef, fgAlive, mapLocationPermissionDenied>>

trackerVars == <<now, shareLiveLocation, shareEffectPending, startTrackingCalls,
                 permissionRequested, isTracking, watchId, geoAlive, lastSentLocation,
                 lastSentTime, sendsInFlight, firstPending, heldBack, permissionDenied>>

cacheVars == <<srvTripOf, srvTrips, srvStopStatus, tripsData, ordersData, tripData, refetchDue,
               moveStopContext, toastOrderId, cacheReqs, reqCount, lastSettled>>

\* The groups of the screens specified after the tracker.
acceptVars == <<srvTrip, execTrip, acceptVehicleId, acceptTripReqs, lastAcceptAttempt>>

pollVars == <<isFocused, adminFocused, adminTrip, pollRef, timersAlive, hasCleanup,
              locInflight, driverLocation, pollCount, lastPoll>>

sessionVars == <<user, logoutAt, bgTaskSends>>

ownVars == <<srvRouteVersion, externalVersions, ownInflight>>

restVars == <<cacheVars, acceptVars, pollVars, sessionVars, ownVars>>

vars == <<role, stopVars, assignVars, routeVars, editVars, trackVars, trackerVars, restVars>>

othersOfStops == <<assignVars, routeVars, editVars, trackVars, trackerVars, restVars>>

othersOfAssign == <<stopVars, routeVars, editVars, trackVars, trackerVars, restVars>>

othersOfRoute == <<role, stopVars, assignVars, editVars, trackVars, trackerVars, restVars>>

othersOfEdit == <<role, stopVars, assignVars, routeVars, trackVars, trackerVars, restVars>>

othersOfTrack == <<role, stopVars, assignVars, routeVars, editVars, trackerVars, restVars>>

\* What the LocationTracker leaves alone: all but the device.
othersOfTracker ==
    <<role, stopVars, assignVars, routeVars, editVars, platform, fgGranted, bgGranted,
      srvDriverTripStatus, driverTripStatus, startTripInflight, bgCalls, bgStarted,
      bgDoubleStart, fgCurrent, fgCancelledRuns, subscriptionRef, fgAlive,
      mapLocationPermissionDenied, restVars>>

othersOfCache == <<role, stopVars, assignVars, routeVars, editVars, trackVars, trackerVars,
                   acceptVars, pollVars, sessionVars, ownVars>>

othersOfAccept == <<role, stopVars, assignVars, routeVars, editVars, trackVars, trackerVars,
                    cacheVars, pollVars, sessionVars, ownVars>>

othersOfPoll == <<role, stopVars, assignVars, routeVars, editVars, trackVars, trackerVars,
                  cacheVars, acceptVars, sessionVars, ownVars>>

-----------------------------------------------------------------------------
(* Strings whose case or spacing the code normalizes are sequences of characters *)

UpperCaseLetters == <<"A", "B", "C", "D", "E", "F", "G", "H", "I", "J", "K", "L", "M", "N", "O", "P", "Q", "R", "S", "T", "U", "V", "W", "X", "Y", "Z">>

LowerCaseLetters == <<"a", "b", "c", "d", "e", "f", "g", "h", "i", "j", "k", "l", "m", "n", "o", "p", "q", "r", "s", "t", "u", "v", "w", "x", "y", "z">>

UpperToLower ==
    [c \in {UpperCaseLetters[i] : i \in 1..26} |->
        LowerCaseLetters[CHOOSE i \in 1..26 : UpperCaseLetters[i] = c]]

\* String.prototype.toLowerCase over the letters that occur in statuses.
toLowerCase(str) ==
    [i \in 1..Len(str) |-> IF str[i] \in DOMAIN UpperToLower THEN UpperToLower[str[i]] ELSE str[i]]

\* str.replace(/\s+/g, '')
RECURSIVE removeWhitespace(_)
removeWhitespace(str) ==
    IF str = <<>> THEN <<>>
    ELSE IF Head(str) = " " THEN removeWhitespace(Tail(str))
    ELSE <<Head(str)>> \o removeWhitespace(Tail(str))

sScheduled == <<"S", "c", "h", "e", "d", "u", "l", "e", "d">>

sCompleted == <<"C", "o", "m", "p", "l", "e", "t", "e", "d">>

sFailed == <<"F", "a", "i", "l", "e", "d">>

sClosed == <<"C", "l", "o", "s", "e", "d">>

sCancelled == <<"C", "a", "n", "c", "e", "l", "l", "e", "d">>

sDispatched == <<"D", "i", "s", "p", "a", "t", "c", "h", "e", "d">>

sInTransit == <<"I", "n", "T", "r", "a", "n", "s", "i", "t">>

sIn_Transit == <<"I", "n", " ", "T", "r", "a", "n", "s", "i", "t">>

sIN_TRANSIT == <<"I", "N", " ", "T", "R", "A", "N", "S", "I", "T">>

s_dispatched == <<"d", "i", "s", "p", "a", "t", "c", "h", "e", "d">>

s_intransit == <<"i", "n", "t", "r", "a", "n", "s", "i", "t">>

s_completed == <<"c", "o", "m", "p", "l", "e", "t", "e", "d">>

s_delivered == <<"d", "e", "l", "i", "v", "e", "r", "e", "d">>

s_closed == <<"c", "l", "o", "s", "e", "d">>

s_cancelled == <<"c", "a", "n", "c", "e", "l", "l", "e", "d">>

Roles == {"Driver", "Admin"}

canEditRoute == role = "Admin" \/ role = "Ops"

isDriverExecution == role = "Driver"

-----------------------------------------------------------------------------
(* TripExecutionScreen: stops *)

NumStops == 2

StopIds == 1..NumStops

NoStop == 0

TerminalStopStatuses == {"Completed", "Failed"}

\* Stop 1 is the pickup, the others are deliveries.
StopType(s) == IF s = 1 THEN "PICKUP" ELSE "DELIVERY"

Bijections(S) == {f \in [S -> S] : \A a, b \in S : a # b => f[a] # f[b]}

RECURSIVE SortIds(_, _)
SortIds(stops, ids) ==
    IF ids = {} THEN <<>>
    ELSE LET m == CHOOSE s \in ids : \A t \in ids :
                      \/ stops[s].sequence < stops[t].sequence
                      \/ stops[s].sequence = stops[t].sequence /\ s <= t
         IN <<m>> \o SortIds(stops, ids \ {m})

\* [...stops].sort((a, b) => a.sequence - b.sequence)
sortedStops(stops) == SortIds(stops, DOMAIN stops)

RECURSIVE FindFirst(_, _, _)
FindFirst(stops, order, skip) ==
    IF order = <<>> THEN NoStop
    ELSE IF stops[Head(order)].status \notin skip THEN Head(order)
    ELSE FindFirst(stops, Tail(order), skip)

getNextStopSkipCompletedOnly(stops) == FindFirst(stops, sortedStops(stops), {"Completed"})

getNextStop(stops) == FindFirst(stops, sortedStops(stops), {"Completed", "Failed"})

isCompleted(stop) == stop.status = "Completed" \/ stop.status = "Failed"

isStarted(stop) == stop.status = "Arrived" \/ stop.status = "In Transit" \/ isCompleted(stop)

canStartThisStopAnyOrder(stops, s) == ~isStarted(stops[s])

canStartThisStop(stops, s) == getNextStop(stops) = s /\ ~isStarted(stops[s])

\* The "Start stop (arrived)" button of stop s is rendered and enabled.
StartButtonShown(s) ==
    /\ isDriverExecution
    /\ ~isCompleted(tripStops[s])
    /\ canStartThisStop(tripStops, s)
    /\ processingStop # s

\* The "Mark Delivered" / "Complete" button of stop s is rendered and enabled.
CompleteButtonShown(s) ==
    /\ isDriverExecution
    /\ ~isCompleted(tripStops[s])
    /\ isStarted(tripStops[s])
    /\ processingStop # s

StopsInit ==
    /\ \E p \in Bijections(StopIds) :
          srvStops = [s \in StopIds |-> [sequence |-> p[s], status |-> "Scheduled"]]
    /\ tripStops = srvStops
    /\ processingStop = NoStop
    /\ stopReqs = {}
    /\ lastStopAttempt = [stop |-> NoStop, outcome |-> "none"]

\* The stop list of an execution screen that is not in use.
StopsIdle ==
    /\ srvStops = [s \in StopIds |-> [sequence |-> s, status |-> "Scheduled"]]
    /\ tripStops = srvStops
    /\ processingStop = NoStop
    /\ stopReqs = {}
    /\ lastStopAttempt = [stop |-> NoStop, outcome |-> "none"]

\* The driver presses the start button of stop s: handleStartStop up to its await.
handleStartStop(s) ==
    /\ StartButtonShown(s)
    /\ processingStop' = s
    /\ stopReqs' = stopReqs \cup {[op |-> "start", stop |-> s]}
    /\ lastStopAttempt' = [stop |-> s, outcome |-> "issued"]
    /\ UNCHANGED <<role, srvStops, tripStops, othersOfStops>>

\* An attempt to start a stop that has no start button: nothing is issued.
StartNotOffered(s) ==
    /\ ~StartButtonShown(s)
    /\ lastStopAttempt' = [stop |-> s, outcome |-> "rejected"]
    /\ UNCHANGED <<role, srvStops, tripStops, processingStop, stopReqs, othersOfStops>>

\* handleCompleteStopNoPOD for a pickup, PODCaptureScreen.handleSubmit for a delivery.
handleCompleteStop(s) ==
    /\ CompleteButtonShown(s)
    /\ processingStop' = IF StopType(s) = "PICKUP" THEN s ELSE processingStop
    /\ stopReqs' = stopReqs \cup {[op |-> "complete", stop |-> s]}
    /\ UNCHANGED <<role, srvStops, tripStops, lastStopAttempt, othersOfStops>>

\* The server answers a request; on success the screen refetches the trip.
StopRequestDone(r, ok) ==
    /\ r \in stopReqs
    /\ stopReqs' = stopReqs \ {r}
    /\ srvStops' = IF ~ok THEN srvStops
                   ELSE [srvStops EXCEPT ![r.stop].status =
                            IF r.op = "start" THEN "Arrived" ELSE "Completed"]
    /\ tripStops' = IF ok THEN srvStops' ELSE tripStops
    /\ processingStop' = IF processingStop = r.stop THEN NoStop ELSE processingStop
    /\ UNCHANGED <<role, lastStopAttempt, othersOfStops>>

\* The server records a started stop as failed (no client call exists for it).
ServerFailStop(s) ==
    /\ srvStops[s].status \in {"Arrived", "In Transit"}
    /\ srvStops' = [srvStops EXCEPT ![s].status = "Failed"]
    /\ UNCHANGED <<role, tripStops, processingStop, stopReqs, lastStopAttempt, othersOfStops>>

\* Focus refetch or the 45 s poll of getTrip delivers the server's stops.
RefetchTrip ==
    /\ tripStops # srvStops
    /\ tripStops' = srvStops
    /\ UNCHANGED <<role, srvStops, processingStop, stopReqs, lastStopAttempt, othersOfStops>>

-----------------------------------------------------------------------------
(* DriverTodayScreen and DriverTripDetailScreen: assigning an order *)

NumOrders == 2

Orders == 1..NumOrders

NoOrder == 0

MaxMutations == 3

NoMutation == 0

Screens == {"today", "detail"}

\* acceptMutation.isPending of a screen: its observer follows the latest mutation.
isPending(screen) == \E m \in acceptInflight : m.id = curMut[screen]

AssignIdle ==
    /\ lockToday = NoOrder
    /\ addToTripOrderId = NoOrder
    /\ todayRender = [addToTripOrderId |-> NoOrder, isPending |-> FALSE, lock |-> NoOrder]
    /\ detailAssigning = NoOrder
    /\ addOrdersVisible = FALSE
    /\ detailRender = [assigningOrderId |-> NoOrder, addOrdersVisible |-> FALSE]
    /\ acceptInflight = {}
    /\ mutCount = 0
    /\ curMut = [s \in Screens |-> NoMutation]
    /\ lastAssignAttempt = [screen |-> "none", order |-> NoOrder, outcome |-> "none"]

\* useMutation.mutate: build a mutation, run onMutate, send the request.
Mutate(screen, o) ==
    /\ mutCount < MaxMutations
    /\ mutCount' = mutCount + 1
    /\ acceptInflight' = acceptInflight \cup {[id |-> mutCount + 1, screen |-> screen, order |-> o]}
    /\ curMut' = [curMut EXCEPT ![screen] = mutCount + 1]
    /\ lastAssignAttempt' = [screen |-> screen, order |-> o, outcome |-> "issued"]

\* DriverTodayScreen re-renders: closures and props take the current values.
TodayRender ==
    /\ todayRender # [addToTripOrderId |-> addToTripOrderId, isPending |-> isPending("today"),
                      lock |-> lockToday]
    /\ todayRender' = [addToTripOrderId |-> addToTripOrderId, isPending |-> isPending("today"),
                       lock |-> lockToday]
    /\ UNCHANGED <<role, lockToday, addToTripOrderId, detailAssigning, addOrdersVisible,
                   detailRender, acceptInflight, mutCount, curMut, lastAssignAttempt,
                   othersOfAssign>>

\* The order row's button (disabled while the rendered lock is set) is pressed.
handleAddToTrip(o) ==
    /\ todayRender.lock = NoOrder
    /\ todayRender.addToTripOrderId = NoOrder
    /\ addToTripOrderId' = IF lockToday # NoOrder THEN addToTripOrderId ELSE o
    /\ UNCHANGED <<role, lockToday, todayRender, detailAssigning, addOrdersVisible,
                   detailRender, acceptInflight, mutCount, curMut, lastAssignAttempt,
                   othersOfAssign>>

closeAddToTripModal ==
    /\ todayRender.addToTripOrderId # NoOrder
    /\ addToTripOrderId' = IF lockToday = NoOrder THEN NoOrder ELSE addToTripOrderId
    /\ UNCHANGED <<role, lockToday, todayRender, detailAssigning, addOrdersVisible,
                   detailRender, acceptInflight, mutCount, curMut, lastAssignAttempt,
                   othersOfAssign>>

\* The rows of the trip picker are enabled unless the rendered isPending is true.
TodayConfirmEnabledIgnoringPending == todayRender.addToTripOrderId # NoOrder

TodayConfirmEnabled == todayRender.addToTripOrderId # NoOrder /\ ~todayRender.isPending

\* A trip row or "Create New Trip" is pressed: handleAcceptConfirm and onMutate.
handleAcceptConfirm ==
    /\ TodayConfirmEnabled
    /\ Mutate("today", todayRender.addToTripOrderId)
    /\ lockToday' = todayRender.addToTripOrderId
    /\ UNCHANGED <<role, addToTripOrderId, todayRender, detailAssigning, addOrdersVisible,
                   detailRender, othersOfAssign>>

\* DriverTripDetailScreen re-renders.
DetailRender ==
    /\ detailRender # [assigningOrderId |-> detailAssigning, addOrdersVisible |-> addOrdersVisible]
    /\ detailRender' = [assigningOrderId |-> detailAssigning, addOrdersVisible |-> addOrdersVisible]
    /\ UNCHANGED <<role, lockToday, addToTripOrderId, todayRender, detailAssigning,
                   addOrdersVisible, acceptInflight, mutCount, curMut, lastAssignAttempt,
                   othersOfAssign>>

\* "Add Orders" is pressed (the button is rendered for canEditRoute only).
OpenAddOrders ==
    /\ canEditRoute
    /\ ~addOrdersVisible
    /\ addOrdersVisible' = TRUE
    /\ UNCHANGED <<role, lockToday, addToTripOrderId, todayRender, detailAssigning,
                   detailRender, acceptInflight, mutCount, curMut, lastAssignAttempt,
                   othersOfAssign>>

\* The "Add" button of an order row is enabled unless the rendered assigningOrderId is set.
DetailAddEnabled == detailRender.addOrdersVisible /\ detailRender.assigningOrderId = NoOrder

\* "Add" is pressed: handleAddOrder (its guard reads the rendered state) and onMutate.
handleAddOrder(o) ==
    /\ DetailAddEnabled
    /\ detailRender.assigningOrderId = NoOrder
    /\ Mutate("detail", o)
    /\ detailAssigning' = o
    /\ UNCHANGED <<role, lockToday, addToTripOrderId, todayRender, addOrdersVisible,
                   detailRender, othersOfAssign>>

\* An assign attempt while the screen shows the action disabled: nothing is issued.
AssignNotOffered(screen, o) ==
    /\ \/ screen = "today" /\ todayRender.addToTripOrderId = o /\ ~TodayConfirmEnabled
       \/ screen = "detail" /\ detailRender.addOrdersVisible /\ ~DetailAddEnabled
    /\ lastAssignAttempt' = [screen |-> screen, order |-> o, outcome |-> "rejected"]
    /\ UNCHANGED <<role, lockToday, addToTripOrderId, todayRender, detailAssigning,
                   addOrdersVisible, detailRender, acceptInflight, mutCount, curMut,
                   othersOfAssign>>

\* A completion whose onError leaves the lock alone.
AcceptDoneKeepingLockOnError(m, ok) ==
    /\ m \in acceptInflight
    /\ acceptInflight' = acceptInflight \ {m}
    /\ lockToday' = IF m.screen = "today" /\ ok THEN NoOrder ELSE lockToday
    /\ addToTripOrderId' = IF m.screen = "today" THEN NoOrder ELSE addToTripOrderId
    /\ detailAssigning' = IF m.screen = "detail" /\ ok THEN NoOrder ELSE detailAssigning
    /\ addOrdersVisible' = IF m.screen = "detail" /\ ok THEN FALSE ELSE addOrdersVisible
    /\ UNCHANGED <<role, todayRender, detailRender, mutCount, curMut, lastAssignAttempt,
                   othersOfAssign>>

\* The acceptOrder request of mutation m completes: onSuccess or onError.
AcceptDone(m, ok) ==
    /\ m \in acceptInflight
    /\ acceptInflight' = acceptInflight \ {m}
    /\ lockToday' = IF m.screen = "today" THEN NoOrder ELSE lockToday
    /\ addToTripOrderId' = IF m.screen = "today" THEN NoOrder ELSE addToTripOrderId
    /\ detailAssigning' = IF m.screen = "detail" THEN NoOrder ELSE detailAssigning
    /\ addOrdersVisible' = IF m.screen = "detail" /\ ok THEN FALSE ELSE addOrdersVisible
    /\ UNCHANGED <<role, todayRender, detailRender, mutCount, curMut, lastAssignAttempt,
                   othersOfAssign>>

-----------------------------------------------------------------------------
(* DriverTripDetailScreen and routeVersionStorage: the last-seen route version *)

NumTrips == 3

TripIds == 1..NumTrips

MaxVersion == 11

\* The route versions a fetch can bring: small ones and two-digit ones.
RouteVersions == (0..3) \cup {MaxVersion - 1, MaxVersion}

\* trip?.routeVersion is undefined or null.
NoVersion == -1

\* getLastSeenRouteVersion returns undefined.
Undefined == -1

DigitChars == <<"0", "1", "2", "3", "4", "5", "6", "7", "8", "9">>

\* String(version) for a non-negative integer.
RECURSIVE NumberToString(_)
NumberToString(n) ==
    IF n < 10 THEN <<DigitChars[n + 1]>>
    ELSE NumberToString(n \div 10) \o <<DigitChars[(n % 10) + 1]>>

DigitValue(c) == CHOOSE d \in 0..9 : DigitChars[d + 1] = c

\* Number(raw) for a string of decimal digits.
RECURSIVE StringToNumber(_)
StringToNumber(raw) ==
    IF raw = <<>> THEN 0
    ELSE StringToNumber(SubSeq(raw, 1, Len(raw) - 1)) * 10 + DigitValue(raw[Len(raw)])

\* storage.getString gives undefined for a missing key; '' is treated alike.
getLastSeenRouteVersion(tripId) ==
    IF storage[tripId] = <<>> THEN Undefined ELSE StringToNumber(storage[tripId])

\* The storage after setLastSeenRouteVersion(tripId, version).
setLastSeenRouteVersion(tripId, version) ==
    [storage EXCEPT ![tripId] = NumberToString(version)]

routeVersionEffectNotLower(lastSeen, v) ==
    IF v = NoVersion THEN [store |-> FALSE, banner |-> FALSE]
    ELSE IF lastSeen = Undefined THEN [store |-> TRUE, banner |-> FALSE]
    ELSE IF v >= lastSeen THEN [store |-> TRUE, banner |-> TRUE]
    ELSE [store |-> FALSE, banner |-> FALSE]

\* The body of the route version effect: what it stores and whether it raises the banner.
routeVersionEffect(lastSeen, v) ==
    IF v = NoVersion THEN [store |-> FALSE, banner |-> FALSE]
    ELSE IF lastSeen = Undefined THEN [store |-> TRUE, banner |-> FALSE]
    ELSE IF v > lastSeen THEN [store |-> TRUE, banner |-> TRUE]
    ELSE [store |-> FALSE, banner |-> FALSE]

RouteIdle ==
    /\ storage = [t \in TripIds |-> <<>>]
    /\ screenTripId = 1
    /\ tripRouteVersion = NoVersion
    /\ routeUpdatedBanner = FALSE
    /\ bannerRaised = FALSE
    /\ fetchTick = FALSE

RouteInit ==
    /\ storage = [t \in TripIds |-> <<>>]
    /\ screenTripId \in TripIds
    /\ tripRouteVersion = NoVersion
    /\ routeUpdatedBanner = FALSE
    /\ bannerRaised = FALSE
    /\ fetchTick = FALSE

\* The screen is mounted for trip t: its state starts afresh, the storage persists.
OpenTripDetail(t) ==
    /\ screenTripId' = t
    /\ tripRouteVersion' = NoVersion
    /\ routeUpdatedBanner' = FALSE
    /\ bannerRaised' = FALSE
    /\ UNCHANGED <<storage, fetchTick, othersOfRoute>>

\* A fetch whose effect stores every version it is given.
FetchTransportTripAlwaysStoring(v) ==
    LET run == v # tripRouteVersion
        eff == routeVersionEffect(getLastSeenRouteVersion(screenTripId), v)
    IN /\ fetchTick' = ~fetchTick
       /\ tripRouteVersion' = v
       /\ storage' = IF run /\ v # NoVersion THEN setLastSeenRouteVersion(screenTripId, v)
                     ELSE storage
       /\ routeUpdatedBanner' = IF run /\ eff.banner THEN TRUE ELSE routeUpdatedBanner
       /\ bannerRaised' = (run /\ eff.banner)
       /\ UNCHANGED <<screenTripId, othersOfRoute>>

\* getTransportTrip answers with routeVersion v; the effect runs when its deps changed.
FetchTransportTrip(v) ==
    LET run == v # tripRouteVersion
        eff == routeVersionEffect(getLastSeenRouteVersion(screenTripId), v)
    IN /\ fetchTick' = ~fetchTick
       /\ tripRouteVersion' = v
       /\ storage' = IF run /\ eff.store THEN setLastSeenRouteVersion(screenTripId, v)
                     ELSE storage
       /\ routeUpdatedBanner' = IF run /\ eff.banner THEN TRUE ELSE routeUpdatedBanner
       /\ bannerRaised' = (run /\ eff.banner)
       /\ UNCHANGED <<screenTripId, othersOfRoute>>

\* "Dismiss" on the banner.
DismissBanner ==
    /\ routeUpdatedBanner
    /\ routeUpdatedBanner' = FALSE
    /\ UNCHANGED <<storage, screenTripId, tripRouteVersion, bannerRaised, fetchTick,
                   othersOfRoute>>

-----------------------------------------------------------------------------
(* DriverTripDetailScreen: editing the route *)

NoRequest == <<>>

\* A stop whose status is Completed or Failed.
IsTerminalStop(stop) == stop.status = sCompleted \/ stop.status = sFailed

\* sortStopsBySequence: the ids of the stops by ascending sequence.
sortStopsBySequence(stops) == SortIds(stops, DOMAIN stops)

\* Delivered = completed or has POD signed
isDelivered(stop) ==
    \/ toLowerCase(stop.status) = s_completed
    \/ toLowerCase(stop.status) = s_delivered
    \/ stop.podSigned

isEditBlockedByStatus(status) ==
    toLowerCase(status) = s_closed \/ toLowerCase(status) = s_cancelled

canEditRouteAllowed == canEditRoute /\ ~isEditBlockedByStatus(detailTripStatus)

\* The ids of a sequence of ids whose stop satisfies / does not satisfy isDelivered.
RECURSIVE FilterIds(_, _, _)
FilterIds(stops, ids, delivered) ==
    IF ids = <<>> THEN <<>>
    ELSE IF isDelivered(stops[Head(ids)]) = delivered
         THEN <<Head(ids)>> \o FilterIds(stops, Tail(ids), delivered)
         ELSE FilterIds(stops, Tail(ids), delivered)

\* sortStopsBySequence(trip.stops).filter((s) => !isDelivered(s))
pendingOf(stops) == FilterIds(stops, sortStopsBySequence(stops), FALSE)

\* sortStopsBySequence(trip.stops).filter(isDelivered)
deliveredOf(stops) == FilterIds(stops, sortStopsBySequence(stops), TRUE)

\* The effect on [trip?.stops, editMode]: pendingOrder after it ran.
pendingOrderEffect(stops, mode, current) == IF mode THEN pendingOf(stops) ELSE current

hasPendingChanges ==
    editMode /\ Len(pendingOrder) > 0 /\ pendingOrder # pendingOf(detailStops)

\* The draggable list with its menus is rendered.
EditListShown == editMode /\ canEditRouteAllowed

SeqsOver(S) == {q \in [1..Cardinality(S) -> S] : \A i, j \in DOMAIN q : i # j => q[i] # q[j]}

Range(q) == {q[i] : i \in DOMAIN q}

EditIdle ==
    /\ srvRoute = [s \in StopIds |-> [sequence |-> s, status |-> sScheduled, podSigned |-> FALSE]]
    /\ srvTripStatus = sScheduled
    /\ detailStops = srvRoute
    /\ detailTripStatus = srvTripStatus
    /\ editMode = FALSE
    /\ pendingOrder = <<>>
    /\ reorderReq = NoRequest
    /\ unassignReqs = {}

\* The "Edit Route" switch.
setEditMode(on) ==
    /\ canEditRouteAllowed
    /\ on # editMode
    /\ editMode' = on
    /\ pendingOrder' = pendingOrderEffect(detailStops, on, pendingOrder)
    /\ UNCHANGED <<srvRoute, srvTripStatus, detailStops, detailTripStatus, reorderReq,
                   unassignReqs, othersOfEdit>>

\* onDragEnd of the draggable list: the pending stops in a new order.
onDragEnd(data) ==
    /\ EditListShown
    /\ Range(data) = Range(pendingOrder)
    /\ data # pendingOrder
    /\ pendingOrder' = data
    /\ UNCHANGED <<srvRoute, srvTripStatus, detailStops, detailTripStatus, editMode,
                   reorderReq, unassignReqs, othersOfEdit>>

\* "Save order": the pending ids followed by the delivered ids.
handleSaveOrder ==
    /\ EditListShown
    /\ hasPendingChanges
    /\ reorderReq = NoRequest
    /\ reorderReq' = pendingOrder \o deliveredOf(detailStops)
    /\ UNCHANGED <<srvRoute, srvTripStatus, detailStops, detailTripStatus, editMode,
                   pendingOrder, unassignReqs, othersOfEdit>>

\* "Unassign from trip" in the menu of a row of the draggable list, confirmed.
handleUnassign(s) ==
    /\ EditListShown
    /\ s \in Range(pendingOrder) \cap DOMAIN detailStops
    /\ unassignReqs' = unassignReqs \cup {[stop |-> s, status |-> detailStops[s].status]}
    /\ UNCHANGED <<srvRoute, srvTripStatus, detailStops, detailTripStatus, editMode,
                   pendingOrder, reorderReq, othersOfEdit>>

\* The position of id s in the sequence q.
IndexOf(q, s) == CHOOSE i \in DOMAIN q : q[i] = s

\* The server renumbers the stops in the order of the payload; the screen refetches.
ReorderDone(ok) ==
    /\ reorderReq # NoRequest
    /\ reorderReq' = NoRequest
    /\ srvRoute' = IF ok /\ Range(reorderReq) = DOMAIN srvRoute
                   THEN [s \in DOMAIN srvRoute |->
                           [srvRoute[s] EXCEPT !.sequence = IndexOf(reorderReq, s)]]
                   ELSE srvRoute
    /\ detailStops' = IF ok THEN srvRoute' ELSE detailStops
    /\ detailTripStatus' = IF ok THEN srvTripStatus ELSE detailTripStatus
    /\ pendingOrder' = IF ok /\ detailStops' # detailStops
                       THEN pendingOrderEffect(detailStops', editMode, pendingOrder)
                       ELSE pendingOrder
    /\ UNCHANGED <<srvTripStatus, editMode, unassignReqs, othersOfEdit>>

\* The server detaches the stop of the order from the trip; the screen refetches.
UnassignDone(s, ok) ==
    /\ \E r \in unassignReqs : r.stop = s
    /\ unassignReqs' = {r \in unassignReqs : r.stop # s}
    /\ srvRoute' = IF ok /\ s \in DOMAIN srvRoute
                   THEN [t \in DOMAIN srvRoute \ {s} |-> srvRoute[t]]
                   ELSE srvRoute
    /\ detailStops' = IF ok THEN srvRoute' ELSE detailStops
    /\ detailTripStatus' = IF ok THEN srvTripStatus ELSE detailTripStatus
    /\ pendingOrder' = IF ok /\ detailStops' # detailStops
                       THEN pendingOrderEffect(detailStops', editMode, pendingOrder)
                       ELSE pendingOrder
    /\ UNCHANGED <<srvTripStatus, editMode, reorderReq, othersOfEdit>>

\* The driver's device completes or fails a stop; a completed delivery has a signed POD.
ServerStopOutcome(s, status) ==
    /\ s \in DOMAIN srvRoute
    /\ srvRoute[s].status = sScheduled
    /\ srvRoute' = [srvRoute EXCEPT ![s].status = status,
                                    ![s].podSigned = (status = sCompleted /\ StopType(s) = "DELIVERY")]
    /\ UNCHANGED <<srvTripStatus, detailStops, detailTripStatus, editMode, pendingOrder,
                   reorderReq, unassignReqs, othersOfEdit>>

\* The trip is closed on the server.
ServerCloseTrip ==
    /\ srvTripStatus = sScheduled
    /\ srvTripStatus' = sClosed
    /\ UNCHANGED <<srvRoute, detailStops, detailTripStatus, editMode, pendingOrder,
                   reorderReq, unassignReqs, othersOfEdit>>

\* Focus refetch or the 45 s poll of getTransportTrip.
FetchDetailTrip ==
    /\ detailStops # srvRoute \/ detailTripStatus # srvTripStatus
    /\ detailStops' = srvRoute
    /\ detailTripStatus' = srvTripStatus
    /\ pendingOrder' = IF detailStops' # detailStops
                       THEN pendingOrderEffect(detailStops', editMode, pendingOrder)
                       ELSE pendingOrder
    /\ UNCHANGED <<srvRoute, srvTripStatus, editMode, reorderReq, unassignReqs, othersOfEdit>>

-----------------------------------------------------------------------------
(* TripExecutionScreen and locationService: tracking during a trip *)

MaxCalls == 2

BgAwaits == {"start_hasStarted", "start_requestPermissions", "start_startLocationUpdates",
             "stop_hasStarted", "stop_stopLocationUpdates"}

FgAwaits == {"requestForegroundPermissions", "watchPosition"}

NoRun == "none"

\* status.toLowerCase().replace(/\s+/g, '') without the replace
normalizeTripStatusKeepSpaces(status) == toLowerCase(status)

\* Normalize trip status for reliable matching (lowercase + remove spaces).
normalizeTripStatus(status) == removeWhitespace(toLowerCase(status))

isActive(status) ==
    normalizeTripStatus(status) = s_dispatched \/ normalizeTripStatus(status) = s_intransit

isEnded(status) ==
    normalizeTripStatus(status) \in {s_completed, s_cancelled, s_closed, s_delivered}

BgInFlight ==
    bgCalls["start_hasStarted"] + bgCalls["start_requestPermissions"]
    + bgCalls["start_startLocationUpdates"] + bgCalls["stop_hasStarted"]
    + bgCalls["stop_stopLocationUpdates"]

FgInFlight ==
    fgCancelledRuns["requestForegroundPermissions"] + fgCancelledRuns["watchPosition"]
    + (IF fgCurrent = NoRun THEN 0 ELSE 1)

\* requestLocationPermissions: foreground, and on Android background.
requestLocationPermissions == fgGranted /\ (platform = "android" => bgGranted)

\* A call of startBackgroundTracking up to its first await.
startBackgroundTracking(calls) ==
    IF platform # "android" THEN calls
    ELSE [calls EXCEPT !["start_hasStarted"] = @ + 1]

\* A call of stopBackgroundTracking up to its first await.
stopBackgroundTracking(calls) ==
    IF platform # "android" THEN calls
    ELSE [calls EXCEPT !["stop_hasStarted"] = @ + 1]

\* The effect on [trip?.status] that starts or stops background tracking.
trackingEffect(status, calls) ==
    IF isActive(status) THEN startBackgroundTracking(calls)
    ELSE IF isEnded(status) THEN stopBackgroundTracking(calls)
    ELSE calls

\* Boolean(trip.vehicleId)
accepted(vehicleId) == vehicleId # <<>>

canStartTrip(status, vehicleId) ==
    /\ status # sIn_Transit /\ status # sCompleted /\ status # sCancelled
    /\ (accepted(vehicleId) \/ status # sScheduled)

isScheduled(status) == status = sScheduled

\* The screen is mounted on a Scheduled trip.
TrackQuiet ==
    /\ srvDriverTripStatus = sScheduled
    /\ driverTripStatus = sScheduled
    /\ startTripInflight = FALSE
    /\ bgCalls = [a \in BgAwaits |-> 0]
    /\ bgStarted = FALSE
    /\ bgDoubleStart = FALSE
    /\ fgCurrent = NoRun
    /\ fgCancelledRuns = [a \in FgAwaits |-> 0]
    /\ subscriptionRef = FALSE
    /\ fgAlive = 0
    /\ mapLocationPermissionDenied = FALSE

TrackIdle == platform = "android" /\ fgGranted = TRUE /\ bgGranted = TRUE /\ TrackQuiet

\* The device and its permissions are any.
TrackStart ==
    platform \in {"android", "ios"} /\ fgGranted \in BOOLEAN /\ bgGranted \in BOOLEAN /\ TrackQuiet

\* The trip moves on at the server: Scheduled -> Dispatched -> in transit -> ended.
ServerTripStatus(status) ==
    /\ \/ srvDriverTripStatus = sScheduled /\ status \in {sDispatched, sCancelled}
       \/ srvDriverTripStatus = sDispatched /\ status \in {sInTransit, sIn_Transit, sIN_TRANSIT, sCancelled}
       \/ srvDriverTripStatus \in {sInTransit, sIn_Transit, sIN_TRANSIT} /\ status \in {sCompleted, sCancelled, sClosed}
       \/ srvDriverTripStatus = sCompleted /\ status = sClosed
    /\ srvDriverTripStatus' = status
    /\ UNCHANGED <<platform, fgGranted, bgGranted, driverTripStatus, startTripInflight, bgCalls,
                   bgStarted, bgDoubleStart, fgCurrent, fgCancelledRuns, subscriptionRef,
                   fgAlive, mapLocationPermissionDenied, othersOfTrack>>

\* The query 'driverTrip' delivers a new status: the tracking effect runs, the watch
\* effect is cleaned up (cancelled = true, subscription removed) and runs again.
FetchDriverTrip ==
    /\ driverTripStatus # srvDriverTripStatus
    /\ BgInFlight < MaxCalls
    /\ FgInFlight < MaxCalls
    /\ driverTripStatus' = srvDriverTripStatus
    /\ bgCalls' = trackingEffect(driverTripStatus', bgCalls)
    /\ fgCancelledRuns' = IF fgCurrent = NoRun THEN fgCancelledRuns
                          ELSE [fgCancelledRuns EXCEPT ![fgCurrent] = @ + 1]
    /\ fgAlive' = IF subscriptionRef THEN fgAlive - 1 ELSE fgAlive
    /\ subscriptionRef' = FALSE
    /\ fgCurrent' = IF isActive(driverTripStatus') THEN "requestForegroundPermissions" ELSE NoRun
    /\ mapLocationPermissionDenied' = FALSE
    /\ UNCHANGED <<platform, fgGranted, bgGranted, srvDriverTripStatus, startTripInflight,
                   bgStarted, bgDoubleStart, othersOfTrack>>

\* "Start Trip"
handleStartTrip ==
    /\ canStartTrip(driverTripStatus, execTrip.vehicleId) /\ ~isScheduled(driverTripStatus)
    /\ ~startTripInflight
    /\ startTripInflight' = TRUE
    /\ UNCHANGED <<platform, fgGranted, bgGranted, srvDriverTripStatus, driverTripStatus, bgCalls,
                   bgStarted, bgDoubleStart, fgCurrent, fgCancelledRuns, subscriptionRef,
                   fgAlive, mapLocationPermissionDenied, othersOfTrack>>

\* startTripMutation settles: the server starts a Dispatched trip; onSuccess calls
\* startBackgroundTracking.
StartTripDone(status) ==
    /\ startTripInflight
    /\ BgInFlight < MaxCalls
    /\ startTripInflight' = FALSE
    /\ IF srvDriverTripStatus = sDispatched
       THEN /\ srvDriverTripStatus' = status
            /\ bgCalls' = startBackgroundTracking(bgCalls)
       ELSE UNCHANGED <<srvDriverTripStatus, bgCalls>>
    /\ UNCHANGED <<platform, fgGranted, bgGranted, driverTripStatus, bgStarted, bgDoubleStart,
                   fgCurrent, fgCancelledRuns, subscriptionRef, fgAlive,
                   mapLocationPermissionDenied, othersOfTrack>>

\* A call of start/stopBackgroundTracking continues after the await it waits at.
BgCallStep(at) ==
    /\ bgCalls[at] > 0
    /\ LET next ==
             CASE at = "start_hasStarted" ->
                    IF bgStarted THEN "return" ELSE "start_requestPermissions"
               [] at = "start_requestPermissions" ->
                    IF requestLocationPermissions THEN "start_startLocationUpdates" ELSE "throw"
               [] at = "stop_hasStarted" ->
                    IF bgStarted THEN "stop_stopLocationUpdates" ELSE "return"
               [] OTHER -> "return"
       IN bgCalls' = [a \in BgAwaits |->
                        IF a = at THEN bgCalls[a] - 1
                        ELSE IF a = next THEN bgCalls[a] + 1
                        ELSE bgCalls[a]]
    /\ bgStarted' = CASE at = "start_startLocationUpdates" -> TRUE
                      [] at = "stop_stopLocationUpdates" -> FALSE
                      [] OTHER -> bgStarted
    /\ bgDoubleStart' = (bgDoubleStart \/ (at = "start_startLocationUpdates" /\ bgStarted))
    /\ UNCHANGED <<platform, fgGranted, bgGranted, srvDriverTripStatus, driverTripStatus,
                   startTripInflight, fgCurrent, fgCancelledRuns, subscriptionRef, fgAlive,
                   mapLocationPermissionDenied, othersOfTrack>>

\* startWatch of the current watch effect continues (cancelled is false).
FgRunStep ==
    /\ fgCurrent # NoRun
    /\ IF fgCurrent = "requestForegroundPermissions"
       THEN /\ fgCurrent' = IF fgGranted THEN "watchPosition" ELSE NoRun
            /\ mapLocationPermissionDenied' = ~fgGranted
            /\ UNCHANGED <<subscriptionRef, fgAlive>>
       ELSE /\ fgCurrent' = NoRun
            /\ subscriptionRef' = TRUE
            /\ fgAlive' = fgAlive + 1
            /\ UNCHANGED mapLocationPermissionDenied
    /\ UNCHANGED <<platform, fgGranted, bgGranted, srvDriverTripStatus, driverTripStatus,
                   startTripInflight, bgCalls, bgStarted, bgDoubleStart, fgCancelledRuns,
                   othersOfTrack>>

\* startWatch of a cleaned-up effect continues (cancelled is true): it returns, and a
\* subscription it was given is removed at once.
FgCancelledRunStep(at) ==
    /\ fgCancelledRuns[at] > 0
    /\ fgCancelledRuns' = [fgCancelledRuns EXCEPT ![at] = @ - 1]
    /\ UNCHANGED <<platform, fgGranted, bgGranted, srvDriverTripStatus, driverTripStatus,
                   startTripInflight, bgCalls, bgStarted, bgDoubleStart, fgCurrent,
                   subscriptionRef, fgAlive, mapLocationPermissionDenied, othersOfTrack>>

-----------------------------------------------------------------------------
(* LocationTracker, driven by DriverMapScreen *)

TickMs == 2000

MaxTicks == 4

MaxInflight == 2

\* Longitudes 103.8000, 103.8001, 103.8002 at latitude 1.3000, in 1e-4 degrees from the first.
Positions == 0..2

NoLocation == -1

NoWatch == "null"

AWatch == "watch"

updateInterval == 5000

distanceThreshold == 20

Abs(n) == IF n < 0 THEN -n ELSE n

\* The haversine distance of two of the positions, in whole metres (11.117 m per 1e-4 degrees).
calculateDistance(a, b) == (Abs(a - b) * 11117) \div 1000

\* shouldSendLocation with both thresholds required
shouldSendLocationBothThresholds(newLocation) ==
    \/ lastSentLocation = NoLocation
    \/ /\ now - lastSentTime >= updateInterval
       /\ calculateDistance(lastSentLocation, newLocation) >= distanceThreshold

\* Check if location should be sent based on interval and distance
shouldSendLocation(newLocation) ==
    \/ lastSentLocation = NoLocation
    \/ now - lastSentTime >= updateInterval
    \/ calculateDistance(lastSentLocation, newLocation) >= distanceThreshold

TrackerIdle ==
    /\ now = 0
    /\ shareLiveLocation = FALSE
    /\ shareEffectPending = FALSE
    /\ startTrackingCalls = 0
    /\ permissionRequested = FALSE
    /\ isTracking = FALSE
    /\ watchId = NoWatch
    /\ geoAlive = 0
    /\ lastSentLocation = NoLocation
    /\ lastSentTime = 0
    /\ sendsInFlight = <<>>
    /\ firstPending = FALSE
    /\ heldBack = FALSE
    /\ permissionDenied = FALSE

\* tracker.startTracking() up to its first await; requestPermissions answers false at
\* once on Android when permissionRequested is set.
startTracking ==
    /\ startTrackingCalls < MaxCalls
    /\ startTrackingCalls' =
          IF isTracking \/ (platform = "android" /\ permissionRequested)
          THEN startTrackingCalls
          ELSE startTrackingCalls + 1
    /\ permissionDenied' =
          (permissionDenied \/ (~isTracking /\ platform = "android" /\ permissionRequested))
    /\ UNCHANGED <<permissionRequested, isTracking, watchId, geoAlive, firstPending>>

\* tracker.stopTracking() that also gives up the starts that wait for the permission
stopTrackingCancelling ==
    /\ IF ~isTracking
       THEN UNCHANGED <<watchId, geoAlive, isTracking>>
       ELSE /\ geoAlive' = IF watchId # NoWatch THEN geoAlive - 1 ELSE geoAlive
            /\ watchId' = NoWatch
            /\ isTracking' = FALSE
    /\ startTrackingCalls' = 0
    /\ UNCHANGED <<permissionRequested, firstPending, permissionDenied>>

\* tracker.stopTracking()
stopTracking ==
    /\ IF ~isTracking
       THEN UNCHANGED <<watchId, geoAlive, isTracking>>
       ELSE /\ geoAlive' = IF watchId # NoWatch THEN geoAlive - 1 ELSE geoAlive
            /\ watchId' = NoWatch
            /\ isTracking' = FALSE
    /\ UNCHANGED <<startTrackingCalls, permissionRequested, firstPending, permissionDenied>>

\* The "Share Live Location" switch, pressed once the effects of the last render have run.
handleShareToggle(enabled) ==
    /\ ~shareEffectPending
    /\ enabled # shareLiveLocation
    /\ shareLiveLocation' = enabled
    /\ shareEffectPending' = TRUE
    /\ IF enabled THEN startTracking ELSE stopTracking
    /\ UNCHANGED <<now, lastSentLocation, lastSentTime, sendsInFlight, heldBack,
                   othersOfTracker>>

\* The effect on [shareLiveLocation, user] after the re-render.
initializeTracking ==
    /\ shareEffectPending
    /\ shareEffectPending' = FALSE
    /\ IF shareLiveLocation /\ role = "Driver" THEN startTracking ELSE stopTracking
    /\ UNCHANGED <<now, shareLiveLocation, lastSentLocation, lastSentTime, sendsInFlight,
                   heldBack, othersOfTracker>>

\* startTracking continues after requestPermissions.
StartTrackingStep ==
    /\ startTrackingCalls > 0
    /\ startTrackingCalls' = startTrackingCalls - 1
    /\ IF platform = "android" /\ ~fgGranted
       THEN /\ permissionDenied' = TRUE
            /\ UNCHANGED <<permissionRequested, isTracking, watchId, geoAlive, firstPending>>
       ELSE /\ permissionRequested' = (permissionRequested \/ platform = "android")
            /\ UNCHANGED permissionDenied
            /\ geoAlive' = IF watchId # NoWatch THEN geoAlive ELSE geoAlive + 1
            /\ watchId' = AWatch
            /\ isTracking' = TRUE
            /\ firstPending' = (firstPending \/ ~isTracking)
    /\ UNCHANGED <<now, shareLiveLocation, shareEffectPending, lastSentLocation, lastSentTime,
                   sendsInFlight, heldBack, othersOfTracker>>

\* handleLocationUpdate: a watch delivers a position, which the device does only
\* with the location permission.
handleLocationUpdate(pos) ==
    /\ geoAlive > 0
    /\ fgGranted
    /\ LET send == shouldSendLocation(pos)
       IN /\ (send /\ shareLiveLocation) => Len(sendsInFlight) < MaxInflight
          /\ sendsInFlight' = IF send /\ shareLiveLocation
                              THEN Append(sendsInFlight, pos)
                              ELSE sendsInFlight
          /\ lastSentLocation' = IF send /\ ~shareLiveLocation THEN pos ELSE lastSentLocation
          /\ lastSentTime' = IF send /\ ~shareLiveLocation THEN now ELSE lastSentTime
          /\ heldBack' = IF send THEN (shareLiveLocation /\ heldBack) ELSE TRUE
    /\ firstPending' = FALSE
    /\ UNCHANGED <<now, shareLiveLocation, shareEffectPending, startTrackingCalls,
                   permissionRequested, isTracking, watchId, geoAlive, permissionDenied,
                   othersOfTracker>>

\* The sequence q without its i-th element.
RemoveAt(q, i) == [j \in 1..(Len(q) - 1) |-> IF j < i THEN q[j] ELSE q[j + 1]]

\* sendLocationToAPI continues after updateLocation: it resolved (ok) or threw.  The
\* error goes to onError of DriverMapScreen, which looks for 'permission' in the
\* message the server or the client gave.
UpdateLocationDone(i, ok) ==
    /\ i \in DOMAIN sendsInFlight
    /\ sendsInFlight' = RemoveAt(sendsInFlight, i)
    /\ lastSentLocation' = IF ok THEN sendsInFlight[i] ELSE lastSentLocation
    /\ lastSentTime' = IF ok THEN now ELSE lastSentTime
    /\ heldBack' = (~ok /\ heldBack)
    /\ \E includesPermission \in BOOLEAN :
          permissionDenied' = (permissionDenied \/ (~ok /\ includesPermission))
    /\ UNCHANGED <<now, shareLiveLocation, shareEffectPending, startTrackingCalls,
                   permissionRequested, isTracking, watchId, geoAlive,
                   firstPending, othersOfTracker>>

\* Time passes.
Tick ==
    /\ now < MaxTicks * TickMs
    /\ now' = now + TickMs
    /\ UNCHANGED <<shareLiveLocation, shareEffectPending, startTrackingCalls,
                   permissionRequested, isTracking, watchId, geoAlive, lastSentLocation,
                   lastSentTime, sendsInFlight, firstPending, heldBack, permissionDenied,
                   othersOfTracker>>

-----------------------------------------------------------------------------
(* The query cache behind DriverTodayScreen and DriverTripDetailScreen *)

NoTrip == 0

\* route.params.tripId of the mounted DriverTripDetailScreen
DetailTripId == 1

QueryKeys == {"transportTrip", "transportTrips", "unassignedOrders"}

\* Requests issued in one run
MaxRequests == 2

NoneSettled == [op |-> "none", ok |-> FALSE, terminal |-> FALSE]

\* GET /transport/trips: each trip with its stops (a stop is named by its order).
getTransportTrips ==
    [trips |-> [t \in srvTrips |-> [stops |-> {o \in Orders : srvTripOf[o] = t}, blanks |-> 0]],
     temps |-> 0]

\* GET /transport/orders?unassigned=true
getUnassignedOrders == {o \in Orders : srvTripOf[o] = NoTrip}

\* GET /transport/trips/:tripId
getTransportTrip(t) ==
    [o \in {x \in Orders : srvTripOf[x] = t} |-> [status |-> srvStopStatus[o], podSigned |-> FALSE]]

\* invalidateTrip: the three queries are invalidated; each has a mounted observer
\* (TodayTab is the initial tab), so each is refetched.
invalidateTrip == QueryKeys

CacheIdle ==
    /\ srvTripOf = [o \in Orders |-> NoTrip]
    /\ srvTrips = {DetailTripId}
    /\ srvStopStatus = [o \in Orders |-> sScheduled]
    /\ tripsData = getTransportTrips
    /\ ordersData = getUnassignedOrders
    /\ tripData = getTransportTrip(DetailTripId)
    /\ refetchDue = {}
    /\ moveStopContext = NoOrder
    /\ toastOrderId = NoOrder
    /\ cacheReqs = {}
    /\ reqCount = 0
    /\ lastSettled = NoneSettled

\* The screens are mounted with their queries answered; some orders are on a trip.
CacheStart ==
    /\ srvTrips \in {{DetailTripId}, TripIds}
    /\ srvTripOf \in [Orders -> {NoTrip} \cup srvTrips]
    /\ srvStopStatus = [o \in Orders |-> sScheduled]
    /\ tripsData = getTransportTrips
    /\ ordersData = getUnassignedOrders
    /\ tripData = getTransportTrip(DetailTripId)
    /\ refetchDue = {}
    /\ moveStopContext = NoOrder
    /\ toastOrderId = NoOrder
    /\ cacheReqs = {}
    /\ reqCount = 0
    /\ lastSettled = NoneSettled

\* A request is sent.
SendRequest(op, o, t) ==
    /\ reqCount < MaxRequests
    /\ reqCount' = reqCount + 1
    /\ cacheReqs' = cacheReqs \cup {[op |-> op, order |-> o, trip |-> t]}

\* A request has completed.
Settle(r, ok) ==
    /\ cacheReqs' = cacheReqs \ {r}
    /\ lastSettled' = [op |-> r.op, ok |-> ok,
                       terminal |-> IsTerminalStop([status |-> srvStopStatus[r.order]])]

\* The trip the server puts an accepted order on: the named one, or a new trip.
AcceptTarget(r) ==
    IF r.trip # NoTrip THEN r.trip
    ELSE IF TripIds \ srvTrips = {} THEN NoTrip
    ELSE CHOOSE t \in TripIds \ srvTrips : \A u \in TripIds \ srvTrips : t <= u

\* The server accepts an order that is unassigned onto a trip it has or can create.
AcceptAccepted(r) == srvTripOf[r.order] = NoTrip /\ AcceptTarget(r) # NoTrip

\* The server moves a stop of the trip unless the stop is Completed or Failed.
MoveAccepted(r) ==
    /\ srvTripOf[r.order] = DetailTripId
    /\ r.trip \in srvTrips
    /\ ~IsTerminalStop([status |-> srvStopStatus[r.order]])

\* The server unassigns an order that is on a trip; otherwise it answers 404.
UnassignAccepted(r) == srvTripOf[r.order] # NoTrip

\* DriverTodayScreen: a trip row (t) or "Create New Trip" (NoTrip) of the picker for order o.
TodayAcceptMutate(o, t) ==
    /\ o \in ordersData
    /\ t \in DOMAIN tripsData.trips \cup {NoTrip}
    /\ ~\E r \in cacheReqs : r.op = "acceptToday"
    /\ SendRequest("acceptToday", o, t)
    /\ UNCHANGED <<srvTripOf, srvTrips, srvStopStatus, tripsData, ordersData, tripData,
                   refetchDue, moveStopContext, toastOrderId, lastSettled, othersOfCache>>

\* onSuccess of DriverTodayScreen's acceptMutation.  acceptOrder hands back the
\* response only when it has a tripId field; otherwise the result is {}.
TodayAcceptOnSuccess(r, hasTripId) ==
    /\ r \in cacheReqs /\ r.op = "acceptToday"
    /\ AcceptAccepted(r)
    /\ srvTripOf' = [srvTripOf EXCEPT ![r.order] = AcceptTarget(r)]
    /\ srvTrips' = srvTrips \cup {AcceptTarget(r)}
    /\ LET tripId == IF hasTripId THEN AcceptTarget(r) ELSE NoTrip
       IN tripsData' =
             IF tripId # NoTrip
             THEN IF tripId \in DOMAIN tripsData.trips
                  THEN [tripsData EXCEPT !.trips[tripId].blanks = @ + 1]
                  ELSE tripsData
             ELSE [tripsData EXCEPT !.temps = @ + 1]
    /\ ordersData' = ordersData \ {r.order}
    /\ toastOrderId' = r.order
    /\ Settle(r, TRUE)
    /\ UNCHANGED <<srvStopStatus, tripData, refetchDue, moveStopContext, reqCount, othersOfCache>>

\* onError of DriverTodayScreen's acceptMutation.
TodayAcceptOnError(r) ==
    /\ r \in cacheReqs /\ r.op = "acceptToday"
    /\ Settle(r, FALSE)
    /\ UNCHANGED <<srvTripOf, srvTrips, srvStopStatus, tripsData, ordersData, tripData,
                   refetchDue, moveStopContext, toastOrderId, reqCount, othersOfCache>>

\* "Undo" of the toast: the toast is hidden and unassignOrder is awaited.
handleUndo ==
    /\ toastOrderId # NoOrder
    /\ toastOrderId' = NoOrder
    /\ SendRequest("undo", toastOrderId, NoTrip)
    /\ UNCHANGED <<srvTripOf, srvTrips, srvStopStatus, tripsData, ordersData, tripData,
                   refetchDue, moveStopContext, lastSettled, othersOfCache>>

\* handleUndo after the await: whether unassignOrder threw or not, both lists are refetched.
UndoSettled(r, ok) ==
    /\ r \in cacheReqs /\ r.op = "undo"
    /\ ok => UnassignAccepted(r)
    /\ srvTripOf' = IF ok THEN [srvTripOf EXCEPT ![r.order] = NoTrip] ELSE srvTripOf
    /\ refetchDue' = refetchDue \cup {"transportTrips", "unassignedOrders"}
    /\ Settle(r, ok)
    /\ UNCHANGED <<srvTrips, srvStopStatus, tripsData, ordersData, tripData, moveStopContext,
                   toastOrderId, reqCount, othersOfCache>>

\* Pull to refresh on DriverTodayScreen, answered.
onRefresh ==
    /\ tripsData # getTransportTrips \/ ordersData # getUnassignedOrders
    /\ tripsData' = getTransportTrips
    /\ ordersData' = getUnassignedOrders
    /\ refetchDue' = refetchDue \ {"transportTrips", "unassignedOrders"}
    /\ UNCHANGED <<srvTripOf, srvTrips, srvStopStatus, tripData, moveStopContext,
                   toastOrderId, cacheReqs, reqCount, lastSettled, othersOfCache>>

\* A refetch answers: the query's data is replaced by the response.
QueryRefetch(key) ==
    /\ key \in refetchDue
    /\ refetchDue' = refetchDue \ {key}
    /\ tripsData' = IF key = "transportTrips" THEN getTransportTrips ELSE tripsData
    /\ ordersData' = IF key = "unassignedOrders" THEN getUnassignedOrders ELSE ordersData
    /\ tripData' = IF key = "transportTrip" THEN getTransportTrip(DetailTripId) ELSE tripData
    /\ UNCHANGED <<srvTripOf, srvTrips, srvStopStatus, moveStopContext, toastOrderId,
                   cacheReqs, reqCount, lastSettled, othersOfCache>>

\* DriverTripDetailScreen: "Add" of an unassigned order in the Add Orders sheet.
DetailAcceptMutate(o) ==
    /\ canEditRoute
    /\ o \in ordersData
    /\ ~\E r \in cacheReqs : r.op = "acceptDetail"
    /\ SendRequest("acceptDetail", o, DetailTripId)
    /\ UNCHANGED <<srvTripOf, srvTrips, srvStopStatus, tripsData, ordersData, tripData,
                   refetchDue, moveStopContext, toastOrderId, lastSettled, othersOfCache>>

\* acceptMutation of DriverTripDetailScreen settles: onSuccess invalidates, onError does not.
DetailAcceptSettled(r, ok) ==
    /\ r \in cacheReqs /\ r.op = "acceptDetail"
    /\ ok => AcceptAccepted(r)
    /\ srvTripOf' = IF ok THEN [srvTripOf EXCEPT ![r.order] = DetailTripId] ELSE srvTripOf
    /\ refetchDue' = IF ok THEN invalidateTrip ELSE refetchDue
    /\ Settle(r, ok)
    /\ UNCHANGED <<srvTrips, srvStopStatus, tripsData, ordersData, tripData, moveStopContext,
                   toastOrderId, reqCount, othersOfCache>>

\* "Move to trip" in the menu of a row of the draggable list (pending stops only).
handleMoveToTrip(o) ==
    /\ canEditRoute
    /\ moveStopContext = NoOrder
    /\ o \in DOMAIN tripData
    /\ ~isDelivered(tripData[o])
    /\ moveStopContext' = o
    /\ UNCHANGED <<srvTripOf, srvTrips, srvStopStatus, tripsData, ordersData, tripData,
                   refetchDue, toastOrderId, cacheReqs, reqCount, lastSettled, othersOfCache>>

\* "Cancel" or the backdrop of the move sheet.
closeMoveSheet ==
    /\ moveStopContext # NoOrder
    /\ moveStopContext' = NoOrder
    /\ UNCHANGED <<srvTripOf, srvTrips, srvStopStatus, tripsData, ordersData, tripData,
                   refetchDue, toastOrderId, cacheReqs, reqCount, lastSettled, othersOfCache>>

\* A row of the move sheet (the other trips of today) is pressed.
handleConfirmMove(targetTripId) ==
    /\ moveStopContext # NoOrder
    /\ targetTripId \in DOMAIN tripsData.trips \ {DetailTripId}
    /\ ~\E r \in cacheReqs : r.op = "move"
    /\ SendRequest("move", moveStopContext, targetTripId)
    /\ UNCHANGED <<srvTripOf, srvTrips, srvStopStatus, tripsData, ordersData, tripData,
                   refetchDue, moveStopContext, toastOrderId, lastSettled, othersOfCache>>

\* onSuccess of moveStopMutation with a placeholder for every trip but the source
moveStopOnSuccessEveryTrip(r) ==
    /\ r \in cacheReqs /\ r.op = "move"
    /\ MoveAccepted(r)
    /\ srvTripOf' = [srvTripOf EXCEPT ![r.order] = r.trip]
    /\ moveStopContext' = NoOrder
    /\ tripData' = [o \in DOMAIN tripData \ {r.order} |-> tripData[o]]
    /\ tripsData' =
          [tripsData EXCEPT !.trips =
              [t \in DOMAIN tripsData.trips |->
                  IF t = DetailTripId
                  THEN [tripsData.trips[t] EXCEPT !.stops = @ \ {r.order}]
                  ELSE IF t # DetailTripId
                  THEN [tripsData.trips[t] EXCEPT !.blanks = @ + 1]
                  ELSE tripsData.trips[t]]]
    /\ refetchDue' = invalidateTrip
    /\ Settle(r, TRUE)
    /\ UNCHANGED <<srvTrips, srvStopStatus, ordersData, toastOrderId, reqCount, othersOfCache>>

\* onSuccess of moveStopMutation: the stop leaves the source projections, a
\* placeholder stop joins the target's, and the queries are invalidated.
moveStopOnSuccess(r) ==
    /\ r \in cacheReqs /\ r.op = "move"
    /\ MoveAccepted(r)
    /\ srvTripOf' = [srvTripOf EXCEPT ![r.order] = r.trip]
    /\ moveStopContext' = NoOrder
    /\ tripData' = [o \in DOMAIN tripData \ {r.order} |-> tripData[o]]
    /\ tripsData' =
          [tripsData EXCEPT !.trips =
              [t \in DOMAIN tripsData.trips |->
                  IF t = DetailTripId
                  THEN [tripsData.trips[t] EXCEPT !.stops = @ \ {r.order}]
                  ELSE IF t = r.trip
                  THEN [tripsData.trips[t] EXCEPT !.blanks = @ + 1]
                  ELSE tripsData.trips[t]]]
    /\ refetchDue' = invalidateTrip
    /\ Settle(r, TRUE)
    /\ UNCHANGED <<srvTrips, srvStopStatus, ordersData, toastOrderId, reqCount, othersOfCache>>

\* onError of moveStopMutation with the patch of onSuccess applied all the same.
moveStopOnErrorPatching(r) ==
    /\ r \in cacheReqs /\ r.op = "move"
    /\ tripData' = [o \in DOMAIN tripData \ {r.order} |-> tripData[o]]
    /\ Settle(r, FALSE)
    /\ UNCHANGED <<srvTripOf, srvTrips, srvStopStatus, tripsData, ordersData, refetchDue,
                   moveStopContext, toastOrderId, reqCount, othersOfCache>>

\* onError of moveStopMutation: a toast, nothing else.
moveStopOnError(r) ==
    /\ r \in cacheReqs /\ r.op = "move"
    /\ Settle(r, FALSE)
    /\ UNCHANGED <<srvTripOf, srvTrips, srvStopStatus, tripsData, ordersData, tripData,
                   refetchDue, moveStopContext, toastOrderId, reqCount, othersOfCache>>

\* "Unassign from trip" in the menu of a row of the draggable list, confirmed.
unassignMutate(o) ==
    /\ canEditRoute
    /\ o \in DOMAIN tripData
    /\ ~isDelivered(tripData[o])
    /\ SendRequest("unassign", o, NoTrip)
    /\ UNCHANGED <<srvTripOf, srvTrips, srvStopStatus, tripsData, ordersData, tripData,
                   refetchDue, moveStopContext, toastOrderId, lastSettled, othersOfCache>>

\* unassignMutation of DriverTripDetailScreen settles: onSuccess invalidates,
\* onError shows a toast.
unassignSettled(r, ok) ==
    /\ r \in cacheReqs /\ r.op = "unassign"
    /\ ok => UnassignAccepted(r)
    /\ srvTripOf' = IF ok THEN [srvTripOf EXCEPT ![r.order] = NoTrip] ELSE srvTripOf
    /\ refetchDue' = IF ok THEN invalidateTrip ELSE refetchDue
    /\ Settle(r, ok)
    /\ UNCHANGED <<srvTrips, srvStopStatus, tripsData, ordersData, tripData, moveStopContext,
                   toastOrderId, reqCount, othersOfCache>>

\* The driver completes or fails the stop of an order that is on a trip.
ServerFinishStop(o, status) ==
    /\ srvTripOf[o] # NoTrip
    /\ srvStopStatus[o] = sScheduled
    /\ srvStopStatus' = [srvStopStatus EXCEPT ![o] = status]
    /\ UNCHANGED <<srvTripOf, srvTrips, tripsData, ordersData, tripData, refetchDue,
                   moveStopContext, toastOrderId, cacheReqs, reqCount, lastSettled,
                   othersOfCache>>

\* The 45 s poll of the trip query while DriverTripDetailScreen is focused, answered.
PollTransportTrip ==
    /\ tripData # getTransportTrip(DetailTripId)
    /\ tripData' = getTransportTrip(DetailTripId)
    /\ refetchDue' = refetchDue \ {"transportTrip"}
    /\ UNCHANGED <<srvTripOf, srvTrips, srvStopStatus, tripsData, ordersData,
                   moveStopContext, toastOrderId, cacheReqs, reqCount, lastSettled,
                   othersOfCache>>

-----------------------------------------------------------------------------
(* TripExecutionScreen: accepting the trip *)

\* What the driver may have typed into "Vehicle ID"
VehicleInputs == {<<>>, <<" ">>, <<"V">>, <<" ", "V">>, <<"V", " ">>}

NoAttempt == [input |-> <<>>, outcome |-> "none"]

RECURSIVE trimStart(_)
trimStart(str) == IF str # <<>> /\ Head(str) = " " THEN trimStart(Tail(str)) ELSE str

RECURSIVE trimEnd(_)
trimEnd(str) ==
    IF str # <<>> /\ str[Len(str)] = " " THEN trimEnd(SubSeq(str, 1, Len(str) - 1)) ELSE str

\* The text as typed.
trimNothing(str) == str

\* String.prototype.trim
trim(str) == trimEnd(trimStart(str))

\* The "Accept trip" card is rendered.
AcceptCardShown == isScheduled(execTrip.status)

AcceptIdle ==
    /\ srvTrip = [status |-> sScheduled, vehicleId |-> <<>>]
    /\ execTrip = srvTrip
    /\ acceptVehicleId = <<>>
    /\ acceptTripReqs = {}
    /\ lastAcceptAttempt = NoAttempt

\* onChangeText of the "Vehicle ID" input.
setAcceptVehicleId(text) ==
    /\ AcceptCardShown
    /\ text # acceptVehicleId
    /\ acceptVehicleId' = text
    /\ UNCHANGED <<srvTrip, execTrip, acceptTripReqs, lastAcceptAttempt, othersOfAccept>>

\* "Accept Trip" is pressed.
handleAcceptTrip ==
    /\ AcceptCardShown
    /\ acceptTripReqs = {}
    /\ LET vehicleId == trim(acceptVehicleId)
       IN IF vehicleId = <<>>
          THEN /\ lastAcceptAttempt' = [input |-> acceptVehicleId, outcome |-> "alert"]
               /\ UNCHANGED acceptTripReqs
          ELSE /\ lastAcceptAttempt' = [input |-> acceptVehicleId, outcome |-> "issued"]
               /\ acceptTripReqs' = {[assignedVehicleId |-> vehicleId]}
    /\ UNCHANGED <<srvTrip, execTrip, acceptVehicleId, othersOfAccept>>

\* An attempt to accept while the "Accept trip" card is not rendered: nothing is issued.
AcceptNotOffered ==
    /\ ~AcceptCardShown
    /\ lastAcceptAttempt' = [input |-> acceptVehicleId, outcome |-> "not offered"]
    /\ UNCHANGED <<srvTrip, execTrip, acceptVehicleId, acceptTripReqs, othersOfAccept>>

\* acceptMutation settles.  The server binds the vehicle of a Scheduled trip; onSuccess
\* invalidates the trip query, which is refetched.
AcceptTripDone(r, ok) ==
    /\ r \in acceptTripReqs
    /\ ok => srvTrip.status = sScheduled
    /\ acceptTripReqs' = acceptTripReqs \ {r}
    /\ srvTrip' = IF ok THEN [srvTrip EXCEPT !.vehicleId = r.assignedVehicleId] ELSE srvTrip
    /\ execTrip' = IF ok THEN srvTrip' ELSE execTrip
    /\ UNCHANGED <<acceptVehicleId, lastAcceptAttempt, othersOfAccept>>

\* The trip moves on at the server.
ServerMovesTrip(status) ==
    /\ \/ srvTrip.status = sScheduled /\ status \in {sDispatched, sCancelled}
       \/ srvTrip.status = sDispatched /\ status \in {sInTransit, sIn_Transit, sCancelled}
       \/ srvTrip.status \in {sInTransit, sIn_Transit} /\ status \in {sCompleted, sCancelled}
    /\ srvTrip' = [srvTrip EXCEPT !.status = status]
    /\ UNCHANGED <<execTrip, acceptVehicleId, acceptTripReqs, lastAcceptAttempt, othersOfAccept>>

\* Focus refetch or the 45 s poll of the trip query.
FetchExecTrip ==
    /\ execTrip # srvTrip
    /\ execTrip' = srvTrip
    /\ UNCHANGED <<srvTrip, acceptVehicleId, acceptTripReqs, lastAcceptAttempt, othersOfAccept>>

-----------------------------------------------------------------------------
(* Polling: the trip query of DriverTripDetailScreen, the driver location of TripDetailScreen *)

MaxPolls == 3

NoDriverId == 0

DriverIds == {1, 2}

\* trip is undefined until the query has data
NoAdminTrip == [status |-> <<>>, driverId |-> NoDriverId]

AdminTrips ==
    [status : {sScheduled, sDispatched, sIn_Transit, sInTransit, sCompleted},
     driverId : {NoDriverId} \cup DriverIds]

NoPoll == [view |-> "none", cause |-> "none"]

\* refetchInterval: isFocused ? 45000 : false (0 for false)
refetchInterval(focused) == IF focused THEN 45000 ELSE 0

isTripActive(trip) ==
    normalizeTripStatus(trip.status) = s_dispatched \/ normalizeTripStatus(trip.status) = s_intransit

hasDriver(trip) == trip.driverId # NoDriverId

shouldPoll(trip) == isTripActive(trip) /\ hasDriver(trip) /\ trip.driverId # NoDriverId

\* The dependencies of the focus effect: shouldPoll, isTripActive, fetchLocation
\* (which is made anew when trip?.driverId changes).
EffectDeps(trip) == <<shouldPoll(trip), isTripActive(trip), trip.driverId>>

PollIdle ==
    /\ isFocused = TRUE
    /\ adminFocused = TRUE
    /\ adminTrip = NoAdminTrip
    /\ pollRef = FALSE
    /\ timersAlive = 0
    /\ hasCleanup = FALSE
    /\ locInflight = 0
    /\ driverLocation = FALSE
    /\ pollCount = 0
    /\ lastPoll = NoPoll

\* A fetch of one of the two polls goes out.
IssuePoll(view, cause) ==
    /\ pollCount < MaxPolls
    /\ pollCount' = pollCount + 1
    /\ lastPoll' = [view |-> view, cause |-> cause]

\* DriverTripDetailScreen gets the focus: useFocusEffect calls refetch().
DetailFocus ==
    /\ ~isFocused
    /\ isFocused' = TRUE
    /\ IssuePoll("detail", "focus")
    /\ UNCHANGED <<adminFocused, adminTrip, pollRef, timersAlive, hasCleanup, locInflight,
                   driverLocation, othersOfPoll>>

\* DriverTripDetailScreen loses the focus.
DetailBlur ==
    /\ isFocused
    /\ isFocused' = FALSE
    /\ UNCHANGED <<adminFocused, adminTrip, pollRef, timersAlive, hasCleanup, locInflight,
                   driverLocation, pollCount, lastPoll, othersOfPoll>>

\* The refetch interval of the trip query elapses.
DetailInterval ==
    /\ refetchInterval(isFocused) > 0
    /\ IssuePoll("detail", "interval")
    /\ UNCHANGED <<isFocused, adminFocused, adminTrip, pollRef, timersAlive, hasCleanup,
                   locInflight, driverLocation, othersOfPoll>>

\* clearInterval(pollRef.current) under if (pollRef.current), leaving every interval alive
clearPollNever(ref, alive) == alive

\* clearInterval(pollRef.current) under if (pollRef.current): the intervals alive afterwards
clearPoll(ref, alive) == IF ref THEN alive - 1 ELSE alive

\* The focus effect of TripDetailScreen runs for trip, after the cleanup of the run
\* before it (if that run returned one).
RunFocusEffect(trip, cause) ==
    LET aliveCleaned == IF hasCleanup THEN clearPoll(pollRef, timersAlive) ELSE timersAlive
        refCleaned == pollRef /\ ~hasCleanup
    IN IF ~shouldPoll(trip)
       THEN /\ timersAlive' = clearPoll(refCleaned, aliveCleaned)
            /\ pollRef' = FALSE
            /\ hasCleanup' = FALSE
            /\ driverLocation' = (driverLocation /\ isTripActive(trip))
            /\ UNCHANGED <<locInflight, pollCount, lastPoll>>
       ELSE /\ IssuePoll("admin", cause)
            /\ locInflight' = locInflight + 1
            /\ timersAlive' = aliveCleaned + 1
            /\ pollRef' = TRUE
            /\ hasCleanup' = TRUE
            /\ UNCHANGED driverLocation

\* The query of TripDetailScreen has (new) data; the focus effect runs again when the
\* screen is focused and one of its dependencies changed.
AdminTripFetched(trip) ==
    /\ trip # adminTrip
    /\ adminTrip' = trip
    /\ IF adminFocused /\ EffectDeps(trip) # EffectDeps(adminTrip)
       THEN RunFocusEffect(trip, "change")
       ELSE UNCHANGED <<pollRef, timersAlive, hasCleanup, locInflight, driverLocation,
                        pollCount, lastPoll>>
    /\ UNCHANGED <<isFocused, adminFocused, othersOfPoll>>

\* TripDetailScreen gets the focus.
AdminFocus ==
    /\ ~adminFocused
    /\ adminFocused' = TRUE
    /\ RunFocusEffect(adminTrip, "focus")
    /\ UNCHANGED <<isFocused, adminTrip, othersOfPoll>>

\* TripDetailScreen loses the focus: the cleanup of the focus effect runs.
AdminBlur ==
    /\ adminFocused
    /\ adminFocused' = FALSE
    /\ timersAlive' = IF hasCleanup THEN clearPoll(pollRef, timersAlive) ELSE timersAlive
    /\ pollRef' = (pollRef /\ ~hasCleanup)
    /\ hasCleanup' = FALSE
    /\ UNCHANGED <<isFocused, adminTrip, locInflight, driverLocation, pollCount, lastPoll,
                   othersOfPoll>>

\* An interval of TripDetailScreen elapses: fetchLocation.
AdminInterval ==
    /\ timersAlive > 0
    /\ IssuePoll("admin", "interval")
    /\ locInflight' = locInflight + 1
    /\ UNCHANGED <<isFocused, adminFocused, adminTrip, pollRef, timersAlive, hasCleanup,
                   driverLocation, othersOfPoll>>

\* fetchLocation continues after the await: a location (found) or null or an error.
LocationFetched(found) ==
    /\ locInflight > 0
    /\ locInflight' = locInflight - 1
    /\ driverLocation' = (driverLocation \/ found)
    /\ UNCHANGED <<isFocused, adminFocused, adminTrip, pollRef, timersAlive, hasCleanup,
                   pollCount, lastPoll, othersOfPoll>>

-----------------------------------------------------------------------------
(* The session: the BACKGROUND_LOCATION task and performLogout of SettingsScreen *)

NoUser == "null"

SessionIdle ==
    /\ user = "Driver"
    /\ logoutAt = NoRun
    /\ bgTaskSends = 0

\* What the session actions leave alone of the trip screen and the tracker.
trackButBgStarted ==
    <<platform, fgGranted, bgGranted, srvDriverTripStatus, driverTripStatus, startTripInflight,
      bgCalls, bgDoubleStart, fgCurrent, fgCancelledRuns, subscriptionRef, fgAlive,
      mapLocationPermissionDenied>>

othersOfSession ==
    <<role, stopVars, assignVars, routeVars, editVars, trackerVars, cacheVars, acceptVars,
      pollVars, ownVars>>

MaxTaskSends == 1

\* The BACKGROUND_LOCATION task receives locations and calls updateLocation with the last.
BackgroundLocationTask ==
    /\ bgStarted
    /\ bgTaskSends < MaxTaskSends
    /\ bgTaskSends' = bgTaskSends + 1
    /\ UNCHANGED <<user, logoutAt, bgStarted, trackButBgStarted, othersOfSession>>

\* updateLocation of the task resolved or threw (the error is logged).
BackgroundSendDone ==
    /\ bgTaskSends > 0
    /\ bgTaskSends' = bgTaskSends - 1
    /\ UNCHANGED <<user, logoutAt, bgStarted, trackButBgStarted, othersOfSession>>

\* "Logout", confirmed: performLogout up to the first await of stopBackgroundTracking.
performLogout ==
    /\ user # NoUser
    /\ logoutAt = NoRun
    /\ logoutAt' = IF platform # "android" THEN "logout" ELSE "stop_hasStarted"
    /\ UNCHANGED <<user, bgTaskSends, bgStarted, trackButBgStarted, othersOfSession>>

\* performLogout continues: stopBackgroundTracking, then logout() and setUser(null),
\* with which the screens of the signed-in stack are unmounted.
LogoutStep ==
    /\ logoutAt # NoRun
    /\ logoutAt' = CASE logoutAt = "stop_hasStarted" ->
                          IF bgStarted THEN "stop_stopLocationUpdates" ELSE "logout"
                     [] logoutAt = "stop_stopLocationUpdates" -> "logout"
                     [] OTHER -> NoRun
    /\ bgStarted' = (bgStarted /\ logoutAt # "stop_stopLocationUpdates")
    /\ user' = IF logoutAt = "logout" THEN NoUser ELSE user
    /\ UNCHANGED <<bgTaskSends, trackButBgStarted, othersOfSession>>

-----------------------------------------------------------------------------
(* DriverTripDetailScreen: the route version after the screen's own mutations *)

MaxChanges == 3

OwnIdle ==
    /\ srvRouteVersion = MaxVersion - MaxChanges
    /\ externalVersions = {}
    /\ ownInflight = FALSE

othersOfOwn ==
    <<role, stopVars, assignVars, routeVars, editVars, trackVars, trackerVars, cacheVars,
      acceptVars, pollVars, sessionVars>>

\* reorderMutation, moveStopMutation, acceptMutation or unassignMutation is called.
ownMutate ==
    /\ canEditRoute
    /\ ~ownInflight
    /\ ownInflight' = TRUE
    /\ UNCHANGED <<srvRouteVersion, externalVersions, othersOfOwn>>

\* The server has applied the change, which raises the trip's routeVersion;
\* onSuccess invalidates the queries and shows a toast.
ownMutationOnSuccess ==
    /\ ownInflight
    /\ srvRouteVersion < MaxVersion
    /\ ownInflight' = FALSE
    /\ srvRouteVersion' = srvRouteVersion + 1
    /\ UNCHANGED <<externalVersions, othersOfOwn>>

\* onError: a toast.
ownMutationOnError ==
    /\ ownInflight
    /\ ownInflight' = FALSE
    /\ UNCHANGED <<srvRouteVersion, externalVersions, othersOfOwn>>

\* Another actor changes the route of the trip.
OtherActorChangesRoute ==
    /\ srvRouteVersion < MaxVersion
    /\ srvRouteVersion' = srvRouteVersion + 1
    /\ externalVersions' = externalVersions \cup {srvRouteVersion + 1}
    /\ UNCHANGED <<ownInflight, othersOfOwn>>

-----------------------------------------------------------------------------
(* Specifications *)

\* The screens specified after the tracker, at rest.
RestIdle == CacheIdle /\ AcceptIdle /\ PollIdle /\ SessionIdle /\ OwnIdle

StopsNext ==
    \/ \E s \in StopIds : handleStartStop(s)
    \/ \E s \in StopIds : StartNotOffered(s)
    \/ \E s \in StopIds : handleCompleteStop(s)
    \/ \E r \in stopReqs, ok \in BOOLEAN : StopRequestDone(r, ok)
    \/ \E s \in StopIds : ServerFailStop(s)
    \/ RefetchTrip

Init == role \in Roles /\ StopsInit /\ AssignIdle /\ RouteIdle /\ EditIdle /\ TrackIdle /\ TrackerIdle /\ RestIdle

Next == StopsNext

\* Stop execution on TripExecutionScreen.
Spec == Init /\ [][Next]_vars

AssignInit == role \in Roles /\ StopsIdle /\ AssignIdle /\ RouteIdle /\ EditIdle /\ TrackIdle /\ TrackerIdle /\ RestIdle

AssignNext ==
    \/ TodayRender
    \/ \E o \in Orders : handleAddToTrip(o)
    \/ closeAddToTripModal
    \/ handleAcceptConfirm
    \/ DetailRender
    \/ OpenAddOrders
    \/ \E o \in Orders : handleAddOrder(o)
    \/ \E s \in Screens, o \in Orders : AssignNotOffered(s, o)
    \/ \E m \in acceptInflight, ok \in BOOLEAN : AcceptDone(m, ok)

\* Assigning orders on DriverTodayScreen and DriverTripDetailScreen.
SpecAssign == AssignInit /\ [][AssignNext]_vars

\* Every acceptOrder request completes (the client's timeout ends a silent one), and
\* React re-renders a screen whose state or mutation observer has changed.
AssignFairness ==
    /\ WF_vars(\E m \in acceptInflight, ok \in BOOLEAN : AcceptDone(m, ok))
    /\ WF_vars(TodayRender)
    /\ WF_vars(DetailRender)

FairSpecAssign == SpecAssign /\ AssignFairness

RouteVersionInit == role = "Admin" /\ StopsIdle /\ AssignIdle /\ RouteInit /\ EditIdle /\ TrackIdle /\ TrackerIdle /\ RestIdle

RouteVersionNext ==
    \/ \E t \in TripIds : OpenTripDetail(t)
    \/ \E v \in RouteVersions \cup {NoVersion} : FetchTransportTrip(v)
    \/ DismissBanner

\* The route version mark of DriverTripDetailScreen.
SpecRouteVersion == RouteVersionInit /\ [][RouteVersionNext]_vars

EditInit == role \in Roles /\ StopsIdle /\ AssignIdle /\ RouteIdle /\ EditIdle /\ TrackIdle /\ TrackerIdle /\ RestIdle

EditNext ==
    \/ \E on \in BOOLEAN : setEditMode(on)
    \/ \E data \in SeqsOver(Range(pendingOrder)) : onDragEnd(data)
    \/ handleSaveOrder
    \/ \E s \in StopIds : handleUnassign(s)
    \/ \E ok \in BOOLEAN : ReorderDone(ok)
    \/ \E s \in StopIds, ok \in BOOLEAN : UnassignDone(s, ok)
    \/ \E s \in StopIds, st \in {sCompleted, sFailed} : ServerStopOutcome(s, st)
    \/ ServerCloseTrip
    \/ FetchDetailTrip

\* Route editing on DriverTripDetailScreen.
SpecEdit == EditInit /\ [][EditNext]_vars

DetailAddInit ==
    role = "Admin" /\ StopsIdle /\ AssignIdle /\ RouteIdle /\ EditIdle /\ TrackIdle /\ TrackerIdle /\ RestIdle

DetailAddNext ==
    \/ ServerCloseTrip
    \/ FetchDetailTrip
    \/ \E on \in BOOLEAN : setEditMode(on)
    \/ OpenAddOrders
    \/ DetailRender
    \/ \E o \in Orders : handleAddOrder(o)
    \/ \E m \in acceptInflight, ok \in BOOLEAN : AcceptDone(m, ok)

\* The header of DriverTripDetailScreen: "Add Orders" and the "Edit Route" switch
\* while the trip is closed on the server.
SpecDetailAdd == DetailAddInit /\ [][DetailAddNext]_vars

TrackInit == role = "Driver" /\ StopsIdle /\ AssignIdle /\ RouteIdle /\ EditIdle /\ TrackStart /\ TrackerIdle /\ RestIdle

TrackNext ==
    \/ \E status \in {sDispatched, sInTransit, sIn_Transit, sIN_TRANSIT, sCompleted, sCancelled, sClosed} :
          ServerTripStatus(status)
    \/ FetchDriverTrip
    \/ handleStartTrip
    \/ \E status \in {sInTransit, sIn_Transit, sIN_TRANSIT} : StartTripDone(status)
    \/ \E at \in BgAwaits : BgCallStep(at)
    \/ FgRunStep
    \/ \E at \in FgAwaits : FgCancelledRunStep(at)

\* Tracking while TripExecutionScreen shows a trip.
SpecTrack == TrackInit /\ [][TrackNext]_vars

\* Every pending promise of the location module settles.
TrackFairness ==
    /\ \A at \in BgAwaits : WF_vars(BgCallStep(at))
    /\ WF_vars(FgRunStep)
    /\ \A at \in FgAwaits : WF_vars(FgCancelledRunStep(at))

FairSpecTrack == SpecTrack /\ TrackFairness

TrackerInit ==
    /\ role = "Driver" /\ StopsIdle /\ AssignIdle /\ RouteIdle /\ EditIdle
    /\ platform \in {"android", "ios"} /\ fgGranted \in BOOLEAN
    /\ bgGranted = TRUE /\ TrackQuiet /\ TrackerIdle /\ RestIdle

TrackerNext ==
    \/ \E enabled \in BOOLEAN : handleShareToggle(enabled)
    \/ initializeTracking
    \/ StartTrackingStep
    \/ \E pos \in Positions : handleLocationUpdate(pos)
    \/ \E i \in 1..MaxInflight, ok \in BOOLEAN : UpdateLocationDone(i, ok)
    \/ Tick

\* The LocationTracker behind DriverMapScreen's "Share Live Location" switch.
SpecTracker == TrackerInit /\ [][TrackerNext]_vars

CacheInit ==
    /\ role = "Admin" /\ StopsIdle /\ AssignIdle /\ RouteIdle /\ EditIdle /\ TrackIdle /\ TrackerIdle
    /\ CacheStart /\ AcceptIdle /\ PollIdle /\ SessionIdle /\ OwnIdle

CacheNext ==
    \/ \E o \in Orders, t \in TripIds \cup {NoTrip} : TodayAcceptMutate(o, t)
    \/ \E r \in cacheReqs, hasTripId \in BOOLEAN : TodayAcceptOnSuccess(r, hasTripId)
    \/ \E r \in cacheReqs : TodayAcceptOnError(r)
    \/ handleUndo
    \/ \E r \in cacheReqs, ok \in BOOLEAN : UndoSettled(r, ok)
    \/ onRefresh
    \/ \E key \in QueryKeys : QueryRefetch(key)
    \/ \E o \in Orders : DetailAcceptMutate(o)
    \/ \E r \in cacheReqs, ok \in BOOLEAN : DetailAcceptSettled(r, ok)
    \/ \E o \in Orders : handleMoveToTrip(o)
    \/ closeMoveSheet
    \/ \E t \in TripIds : handleConfirmMove(t)
    \/ \E r \in cacheReqs : moveStopOnSuccess(r)
    \/ \E r \in cacheReqs : moveStopOnError(r)
    \/ \E o \in Orders : unassignMutate(o)
    \/ \E r \in cacheReqs, ok \in BOOLEAN : unassignSettled(r, ok)
    \/ \E o \in Orders, st \in {sCompleted, sFailed} : ServerFinishStop(o, st)
    \/ PollTransportTrip

\* The trips and orders cache under the coordination operations of both screens.
SpecCache == CacheInit /\ [][CacheNext]_vars

\* Every request is answered, every refetch that was asked for answers, and the
\* trip query of the detail screen is fetched again on its interval and on focus;
\* what the user does (pressing, pulling to refresh) is left to the user.
CacheFairness ==
    /\ WF_vars(\E r \in cacheReqs :
                  \/ TodayAcceptOnError(r)
                  \/ \E hasTripId \in BOOLEAN : TodayAcceptOnSuccess(r, hasTripId)
                  \/ moveStopOnSuccess(r) \/ moveStopOnError(r)
                  \/ \E ok \in BOOLEAN :
                        UndoSettled(r, ok) \/ DetailAcceptSettled(r, ok) \/ unassignSettled(r, ok))
    /\ WF_vars(\E key \in QueryKeys : QueryRefetch(key))
    /\ WF_vars(PollTransportTrip)

FairSpecCache == SpecCache /\ CacheFairness

MoveNext ==
    \/ \E o \in Orders : handleMoveToTrip(o)
    \/ closeMoveSheet
    \/ \E t \in TripIds : handleConfirmMove(t)
    \/ \E r \in cacheReqs : moveStopOnSuccess(r)
    \/ \E r \in cacheReqs : moveStopOnError(r)
    \/ \E key \in QueryKeys : QueryRefetch(key)
    \/ \E o \in Orders, st \in {sCompleted, sFailed} : ServerFinishStop(o, st)
    \/ PollTransportTrip

\* Moving a stop to another trip from DriverTripDetailScreen.
SpecMove == CacheInit /\ [][MoveNext]_vars

BackgroundNext ==
    \/ TrackNext
    \/ BackgroundLocationTask
    \/ BackgroundSendDone

\* TripExecutionScreen's tracking with the background task delivering.
SpecBackground == TrackInit /\ [][BackgroundNext]_vars

\* The tracker, possibly with background updates left running by an active trip.
LogoutInit ==
    /\ role = "Driver" /\ StopsIdle /\ AssignIdle /\ RouteIdle /\ EditIdle
    /\ platform \in {"android", "ios"} /\ fgGranted \in BOOLEAN /\ bgGranted = TRUE
    /\ srvDriverTripStatus = sScheduled /\ driverTripStatus = sScheduled
    /\ startTripInflight = FALSE /\ bgCalls = [a \in BgAwaits |-> 0]
    /\ bgStarted \in {FALSE, platform = "android" /\ fgGranted}
    /\ bgDoubleStart = FALSE /\ fgCurrent = NoRun /\ fgCancelledRuns = [a \in FgAwaits |-> 0]
    /\ subscriptionRef = FALSE /\ fgAlive = 0 /\ mapLocationPermissionDenied = FALSE
    /\ TrackerIdle /\ RestIdle

\* DriverMapScreen is there only for a signed-in user; the tracker and the task are
\* not bound to a screen.
LogoutNext ==
    \/ user # NoUser /\ \E enabled \in BOOLEAN : handleShareToggle(enabled)
    \/ user # NoUser /\ initializeTracking
    \/ StartTrackingStep
    \/ \E pos \in Positions : handleLocationUpdate(pos)
    \/ \E i \in 1..MaxInflight, ok \in BOOLEAN : UpdateLocationDone(i, ok)
    \/ Tick
    \/ BackgroundLocationTask
    \/ BackgroundSendDone
    \/ performLogout
    \/ LogoutStep

\* The tracker and the background task across a logout.
SpecLogout == LogoutInit /\ [][LogoutNext]_vars

OwnChangeNext ==
    \/ FetchTransportTrip(srvRouteVersion)
    \/ DismissBanner
    \/ ownMutate
    \/ ownMutationOnSuccess
    \/ ownMutationOnError
    \/ OtherActorChangesRoute

\* The route version mark while the screen and another actor change the route.
SpecOwnChange == RouteVersionInit /\ [][OwnChangeNext]_vars

PollInit ==
    /\ role = "Admin" /\ StopsIdle /\ AssignIdle /\ RouteIdle /\ EditIdle /\ TrackIdle /\ TrackerIdle
    /\ CacheIdle /\ AcceptIdle /\ PollIdle /\ SessionIdle /\ OwnIdle

PollNext ==
    \/ DetailFocus
    \/ DetailBlur
    \/ DetailInterval
    \/ \E trip \in AdminTrips : AdminTripFetched(trip)
    \/ AdminFocus
    \/ AdminBlur
    \/ AdminInterval
    \/ \E found \in BOOLEAN : LocationFetched(found)

\* The polls of the two trip detail screens under focus changes.
SpecPoll == PollInit /\ [][PollNext]_vars

AcceptInit ==
    /\ role = "Driver" /\ StopsIdle /\ AssignIdle /\ RouteIdle /\ EditIdle /\ TrackIdle /\ TrackerIdle
    /\ CacheIdle /\ AcceptIdle /\ PollIdle /\ SessionIdle /\ OwnIdle

AcceptNext ==
    \/ \E text \in VehicleInputs : setAcceptVehicleId(text)
    \/ handleAcceptTrip
    \/ AcceptNotOffered
    \/ \E r \in acceptTripReqs, ok \in BOOLEAN : AcceptTripDone(r, ok)
    \/ \E st \in {sDispatched, sInTransit, sIn_Transit, sCompleted, sCancelled} : ServerMovesTrip(st)
    \/ FetchExecTrip

\* Accepting the trip on TripExecutionScreen.
SpecAccept == AcceptInit /\ [][AcceptNext]_vars

-----------------------------------------------------------------------------
(* Claims on stop execution *)

\* The stops that are neither Completed nor Failed.
NonTerminal(stops) == {s \in DOMAIN stops : stops[s].status \notin TerminalStopStatuses}

\* The lowest-sequence stop that is neither Completed nor Failed, if any.
IsCurrentNext(stops, s) ==
    /\ s \in NonTerminal(stops)
    /\ \A t \in NonTerminal(stops) : stops[s].sequence <= stops[t].sequence

\* C1: a start attempt on a stop that is not the current next stop (the
\* lowest-sequence stop that is neither Completed nor Failed) is rejected: no
\* start request is issued for it and no stop changes status.
C1_OutOfOrderRejected ==
    [][\A s \in StopIds : ~IsCurrentNext(tripStops, s) =>
         /\ [op |-> "start", stop |-> s] \in stopReqs' => [op |-> "start", stop |-> s] \in stopReqs
         /\ (lastStopAttempt' # lastStopAttempt /\ lastStopAttempt'.stop = s)
              => /\ lastStopAttempt'.outcome = "rejected"
                 /\ stopReqs' = stopReqs
                 /\ tripStops' = tripStops
                 /\ srvStops' = srvStops]_vars

\* A start on a later stop was attempted while an earlier stop was still open.
C1_Witness ==
    /\ lastStopAttempt.outcome = "rejected"
    /\ lastStopAttempt.stop # NoStop
    /\ role = "Driver"
    /\ \E t \in StopIds : IsCurrentNext(tripStops, t) /\ t # lastStopAttempt.stop
    /\ tripStops[lastStopAttempt.stop].status = "Scheduled"

\* C10: the start of a stop is offered exactly for the lowest-sequence stop that
\* is neither Completed nor Failed, while that stop is not started: with stops
\* seq 1 and seq 2, seq 2 cannot be started before seq 1 is Completed or Failed,
\* and it becomes the only startable stop once seq 1 is.
C10_NextStopOnlyStartable ==
    \A s \in StopIds :
        /\ StartButtonShown(s) => IsCurrentNext(tripStops, s)
        /\ (role = "Driver" /\ processingStop # s /\ IsCurrentNext(tripStops, s)
               /\ tripStops[s].status = "Scheduled") => StartButtonShown(s)

\* The first stop is done (Completed or Failed) and the start of the second went through.
C10_Witness ==
    \E a, b \in StopIds :
        /\ tripStops[a].sequence = 1 /\ tripStops[b].sequence = 2
        /\ tripStops[a].status \in TerminalStopStatuses
        /\ tripStops[b].status = "Arrived"
        /\ lastStopAttempt = [stop |-> b, outcome |-> "issued"]

-----------------------------------------------------------------------------
(* Claims on assigning orders *)

\* C2: at most one acceptOrder request per order is in flight on a screen at any
\* time: a second assign attempt for the order, also one made before the screen
\* re-rendered, is rejected and issues no request.
C2_SingleFlightPerOrder ==
    \A scr \in Screens, o \in Orders :
        Cardinality({m \in acceptInflight : m.screen = scr /\ m.order = o}) <= 1

-----------------------------------------------------------------------------
(* Claims on the route version mark *)

-----------------------------------------------------------------------------
(* Claims on route editing *)

\* C4: a stop whose status is Completed or Failed is never part of the
\* reorderable pending list, never the target of an unassignOrder request issued
\* from that list, and in every reorder payload it comes after the pending stops.
C4_TerminalStopsLocked ==
    /\ EditListShown =>
          \A i \in DOMAIN pendingOrder :
              pendingOrder[i] \in DOMAIN detailStops => ~IsTerminalStop(detailStops[pendingOrder[i]])
    /\ \A i, j \in DOMAIN reorderReq :
          (/\ reorderReq[i] \in DOMAIN detailStops /\ reorderReq[j] \in DOMAIN detailStops
           /\ IsTerminalStop(detailStops[reorderReq[i]])
           /\ ~IsTerminalStop(detailStops[reorderReq[j]])) => j < i
    /\ \A r \in unassignReqs : r.status # sCompleted /\ r.status # sFailed

\* The stops of the server's route that are not Completed or Failed.
PendingOnServer(stops) == {s \in DOMAIN stops : ~IsTerminalStop(stops[s])}

\* C11: after every reorderStops call that the server applied, the sequence numbers
\* of the N pending stops are exactly 1..N, one each, and every Completed or Failed
\* stop has a sequence number greater than that of every pending stop.
C11_ReorderKeepsPendingFirst ==
    [][(ReorderDone(TRUE) /\ Range(reorderReq) = DOMAIN srvRoute) =>
          LET pend == PendingOnServer(srvRoute')
          IN /\ {srvRoute'[s].sequence : s \in pend} = 1..Cardinality(pend)
             /\ \A t \in DOMAIN srvRoute' \ pend, q \in pend :
                   srvRoute'[t].sequence > srvRoute'[q].sequence]_vars

-----------------------------------------------------------------------------
(* Claims on tracking during a trip *)

ActiveSpellings == {sDispatched, sInTransit, sIn_Transit, sIN_TRANSIT}

TerminalSpellings == {sCompleted, sCancelled, sClosed}

NoPendingTrackingCalls == BgInFlight = 0 /\ FgInFlight = 0 /\ ~startTripInflight

BothRunning == bgStarted /\ subscriptionRef /\ fgAlive = 1

\* C5: once the fetched trip status is Completed, Cancelled or Closed and no call of
\* startBackgroundTracking / stopBackgroundTracking or startWatch is pending any more,
\* background location updates are not started and no position subscription is left.
C5_EndedTripStopsTracking ==
    (driverTripStatus \in TerminalSpellings /\ NoPendingTrackingCalls)
        => (~bgStarted /\ fgAlive = 0 /\ ~subscriptionRef)

C7_StartIsIdempotent == ~bgDoubleStart

-----------------------------------------------------------------------------
(* Claims on the reporting throttle *)

\* The sample is within the interval and within the distance threshold of the reference values.
BelowBothThresholds(pos) ==
    /\ now - lastSentTime < 5000
    /\ calculateDistance(lastSentLocation, pos) < 20

ReferenceUnchanged == lastSentLocation' = lastSentLocation /\ lastSentTime' = lastSentTime

\* C8 as stated: with the reference values set, a sample below both thresholds is not
\* transmitted, a sample that meets either threshold is transmitted, and the
\* transmission of a sample resets the last-sent location and time to it.
C8_ThrottleLawAsStated ==
    [][/\ \A pos \in Positions :
            (handleLocationUpdate(pos) /\ lastSentLocation # NoLocation) =>
                IF BelowBothThresholds(pos)
                THEN sendsInFlight' = sendsInFlight
                ELSE sendsInFlight' = Append(sendsInFlight, pos)
       /\ \A i \in DOMAIN sendsInFlight, ok \in BOOLEAN :
            (UpdateLocationDone(i, ok) /\ lastSentLocation # NoLocation) =>
                (lastSentLocation' = sendsInFlight[i] /\ lastSentTime' = now)]_vars

\* C8 amended: with the reference values set, a sample below both thresholds is not
\* transmitted and changes nothing; a sample that meets either threshold is transmitted
\* when sharing is enabled, and the reference values are reset to its location and to
\* the time of completion when the transmission succeeds, and stay as they are when it
\* fails; with sharing disabled it is not transmitted and the reference values are reset
\* at once. With 5 s and 20 m, a sample 2 s and 11 m after the reference is not
\* transmitted and one 8 s after it at the same place is.
C8_ThrottleLaw ==
    [][/\ \A pos \in Positions :
            (handleLocationUpdate(pos) /\ lastSentLocation # NoLocation) =>
                IF BelowBothThresholds(pos)
                THEN sendsInFlight' = sendsInFlight /\ ReferenceUnchanged
                ELSE IF shareLiveLocation
                THEN sendsInFlight' = Append(sendsInFlight, pos) /\ ReferenceUnchanged
                ELSE /\ sendsInFlight' = sendsInFlight
                     /\ lastSentLocation' = pos /\ lastSentTime' = now
       /\ \A i \in DOMAIN sendsInFlight, ok \in BOOLEAN :
            (UpdateLocationDone(i, ok) /\ lastSentLocation # NoLocation) =>
                IF ok THEN lastSentLocation' = sendsInFlight[i] /\ lastSentTime' = now
                ELSE ReferenceUnchanged
       /\ (handleLocationUpdate(1) /\ lastSentLocation = 0 /\ now - lastSentTime = 2000)
            => sendsInFlight' = sendsInFlight
       /\ (handleLocationUpdate(1) /\ lastSentLocation = 0 /\ now - lastSentTime = 8000
            /\ shareLiveLocation)
            => sendsInFlight' = Append(sendsInFlight, 1)]_vars

\* The sample at position 0 was transmitted at time 0 and is the reference; a sample
\* was held back since, and 8 s after the reference the transmission of a sample 11 m
\* away, which met the time threshold only, is on its way.
C8_Witness ==
    /\ lastSentLocation = 0 /\ lastSentTime = 0 /\ now = 8000 /\ shareLiveLocation
    /\ heldBack /\ sendsInFlight = <<1>>

\* C9: the first sample after a start of the tracker, a restart after stopTracking
\* included, is never held back by the throttle: it is transmitted or, with sharing
\* disabled, becomes the reference.
C9_FirstSampleNotThrottled ==
    [][\A pos \in Positions :
          (handleLocationUpdate(pos) /\ firstPending) =>
              \/ sendsInFlight' = Append(sendsInFlight, pos)
              \/ ~shareLiveLocation /\ lastSentLocation' = pos /\ lastSentTime' = now]_vars

-----------------------------------------------------------------------------
(* Claims on the trips and orders cache *)

\* The cached lists hold what the server holds: no placeholder stop, no temp- trip,
\* no order or stop that the server has elsewhere.
CacheMatchesServer ==
    /\ tripsData = getTransportTrips
    /\ ordersData = getUnassignedOrders
    /\ DOMAIN tripData = DOMAIN getTransportTrip(DetailTripId)

\* C16: whenever no request is in flight, the cache comes to equal the server's
\* state (or a new request is issued first): every optimistic patch is replaced by
\* a refetch that the operation itself brings about.
C16_PatchesReconciled == (cacheReqs = {}) ~> (cacheReqs # {} \/ CacheMatchesServer)

-----------------------------------------------------------------------------
(* Claims on accepting and starting the trip *)

\* The text has no character other than spaces.
IsBlank(str) == \A i \in DOMAIN str : str[i] = " "

\* C13: an acceptTrip request is issued only while the fetched trip status is
\* Scheduled and the typed vehicle id is not blank; an attempt in any other case is
\* turned down (by an alert, or because the card is not there), issues no request
\* and leaves the trip as it was.
C13_AcceptNeedsScheduledAndVehicle ==
    [][/\ \A r \in acceptTripReqs' \ acceptTripReqs :
             /\ execTrip.status = sScheduled
             /\ ~IsBlank(acceptVehicleId)
             /\ ~IsBlank(r.assignedVehicleId)
       /\ (/\ lastAcceptAttempt' # lastAcceptAttempt
           /\ (execTrip.status # sScheduled \/ IsBlank(acceptVehicleId)))
          => /\ lastAcceptAttempt'.outcome \in {"alert", "not offered"}
             /\ acceptTripReqs' = acceptTripReqs
             /\ srvTrip' = srvTrip
             /\ execTrip' = execTrip]_vars

\* "Accept Trip" was pressed on a Scheduled trip with only a space typed: the alert
\* was shown and nothing was sent.
C13_Witness ==
    /\ lastAcceptAttempt = [input |-> <<" ">>, outcome |-> "alert"]
    /\ execTrip.status = sScheduled
    /\ acceptTripReqs = {}
    /\ srvTrip.vehicleId = <<>>

\* The start of TripExecutionScreen is rendered.
ExecStartOffered == canStartTrip(execTrip.status, execTrip.vehicleId) /\ ~isScheduled(execTrip.status)

\* The start of DriverTripDetailScreen is rendered enabled.
DetailStartOffered == execTrip.status # sIn_Transit /\ execTrip.status # sCompleted

\* The trip is accepted or past Scheduled, and not in transit, completed or cancelled.
StartIsLegal ==
    /\ accepted(execTrip.vehicleId) \/ normalizeTripStatus(execTrip.status) # toLowerCase(sScheduled)
    /\ normalizeTripStatus(execTrip.status) \notin {s_intransit, s_completed, s_cancelled}

\* C14: on TripExecutionScreen and on DriverTripDetailScreen the start of the trip
\* is offered exactly when the trip is accepted or past Scheduled and is not in
\* transit, completed or cancelled, under any spelling of the status.
C14_StartOfferedWhenLegal ==
    /\ ExecStartOffered <=> StartIsLegal
    /\ DetailStartOffered <=> StartIsLegal

-----------------------------------------------------------------------------
(* Claims on the closed trip *)

\* C15: while the fetched trip status is Closed or Cancelled (any casing), no
\* reorderStops, moveStop, unassignOrder or acceptOrder request for the trip is
\* issued from DriverTripDetailScreen.
C15_ClosedTripIsImmutable ==
    [][isEditBlockedByStatus(detailTripStatus) =>
          /\ \A m \in acceptInflight' \ acceptInflight : m.screen # "detail"
          /\ reorderReq' \in {reorderReq, NoRequest}
          /\ unassignReqs' \subseteq unassignReqs
          /\ \A r \in cacheReqs' \ cacheReqs : r.op \notin {"acceptDetail", "move", "unassign"}]_vars

\* C17: when unassignOrder is answered 404 (the order is on no trip), the trips and
\* the unassigned orders are refetched, from Undo on DriverTodayScreen and from the
\* unassign action of DriverTripDetailScreen alike.
C17_NotFoundRefetches ==
    [][\A r \in cacheReqs :
          (/\ r.op \in {"undo", "unassign"}
           /\ ~UnassignAccepted(r)
           /\ (UndoSettled(r, FALSE) \/ unassignSettled(r, FALSE)))
          => {"transportTrips", "unassignedOrders"} \subseteq refetchDue']_vars


\* C18: when updateLocation fails, nothing but the request itself goes away: the
\* screen shows no error, the tracker keeps tracking with the same watch, the
\* sample is neither sent again nor kept, and the reference values against which
\* the next sample is evaluated stay as they were.
C18_FailedReportIsAbsorbed ==
    [][\A i \in 1..MaxInflight :
          UpdateLocationDone(i, FALSE) =>
             /\ permissionDenied' = permissionDenied
             /\ isTracking' = isTracking /\ watchId' = watchId /\ geoAlive' = geoAlive
             /\ shareLiveLocation' = shareLiveLocation
             /\ Len(sendsInFlight') = Len(sendsInFlight) - 1
             /\ lastSentLocation' = lastSentLocation /\ lastSentTime' = lastSentTime]_vars


\* The trip is Dispatched or In Transit, in any spelling, and has a driver.
ActiveWithDriver(trip) ==
    /\ normalizeTripStatus(trip.status) \in {s_dispatched, s_intransit}
    /\ trip.driverId \in DriverIds

PollIssued(view) == pollCount' = pollCount + 1 /\ lastPoll'.view = view

C20_NoStartWithoutPermission ==
    [][/\ (geoAlive' > geoAlive \/ (isTracking' /\ ~isTracking)) => fgGranted
       /\ (StartTrackingStep /\ ~fgGranted) =>
             /\ permissionDenied'
             /\ isTracking' = isTracking /\ watchId' = watchId /\ geoAlive' = geoAlive]_vars

\* C20 for background tracking: location updates are started only after
\* requestLocationPermissions answered true.
C20_BackgroundNeedsPermission ==
    [][(bgStarted' /\ ~bgStarted) => requestLocationPermissions]_vars


\* The step calls tracker.stopTracking().
StopTrackingCalled ==
    \/ handleShareToggle(FALSE)
    \/ initializeTracking /\ ~(shareLiveLocation /\ role = "Driver")

\* C21: stopTracking on a tracker that is not tracking changes nothing of the
\* tracker, whether or not a start ever succeeded; so a second stop right after a
\* stop changes nothing either.
C21_StopWhenStoppedIsNoOp ==
    [][(StopTrackingCalled /\ ~isTracking) =>
          /\ isTracking' = isTracking /\ watchId' = watchId /\ geoAlive' = geoAlive
          /\ permissionRequested' = permissionRequested
          /\ startTrackingCalls' = startTrackingCalls
          /\ lastSentLocation' = lastSentLocation /\ lastSentTime' = lastSentTime
          /\ sendsInFlight' = sendsInFlight]_vars

\* A start succeeded, the switch was turned off (first stop) and the effect that
\* follows has stopped once more.
C21_Witness ==
    /\ platform = "android" /\ permissionRequested
    /\ ~shareLiveLocation /\ ~shareEffectPending
    /\ ~isTracking /\ watchId = NoWatch /\ geoAlive = 0 /\ startTrackingCalls = 0

\* C21 for background tracking: stopBackgroundTracking that finds no updates
\* started returns without touching them.
C21_BackgroundStopIsNoOp ==
    [][(BgCallStep("stop_hasStarted") /\ ~bgStarted) =>
          (bgStarted' = bgStarted /\ bgCalls'["stop_stopLocationUpdates"] = bgCalls["stop_stopLocationUpdates"])]_vars


\* C22: a sample goes to the server, from the LocationTracker or from the
\* BACKGROUND_LOCATION task, only while Share Live Location is enabled.
C22_NoSendWhileSharingOff ==
    [][(Len(sendsInFlight') > Len(sendsInFlight) \/ bgTaskSends' > bgTaskSends)
          => shareLiveLocation]_vars

\* C22 for the LocationTracker alone.
C22_TrackerHonoursSharing ==
    [][Len(sendsInFlight') > Len(sendsInFlight) => shareLiveLocation]_vars


\* C23: once logout has completed, no background updates and no tracker watch
\* are running, and no sample goes to the server any more.
C23_NothingTracksAfterLogout ==
    /\ [](user = NoUser => (~bgStarted /\ geoAlive = 0 /\ ~isTracking))
    /\ [][user = NoUser =>
            (Len(sendsInFlight') <= Len(sendsInFlight) /\ bgTaskSends' <= bgTaskSends)]_vars


\* C24: requests that edit a route (assign, reorder, unassign) go out only in an
\* Admin or Ops session, and requests that execute a stop only in a Driver
\* session.
C24_RequestsFollowRole ==
    [][/\ acceptInflight' \ acceptInflight # {} => canEditRoute
       /\ (reorderReq' # reorderReq /\ reorderReq' # NoRequest) => canEditRoute
       /\ unassignReqs' \ unassignReqs # {} => canEditRoute
       /\ stopReqs' \ stopReqs # {} => isDriverExecution]_vars


\* C25: when moveStop has succeeded, the stop is in neither projection of the
\* source trip, the target trip of the list has one placeholder stop more and its
\* other stops as before, and every other trip of the list is as it was.
C25_MovePatchesSourceAndTarget ==
    [][\A r \in cacheReqs :
          (r.op = "move" /\ moveStopOnSuccess(r)) =>
             /\ r.order \notin DOMAIN tripData'
             /\ DOMAIN tripsData'.trips = DOMAIN tripsData.trips
             /\ r.order \notin tripsData'.trips[DetailTripId].stops
             /\ tripsData'.trips[r.trip].blanks = tripsData.trips[r.trip].blanks + 1
             /\ tripsData'.trips[r.trip].stops = tripsData.trips[r.trip].stops
             /\ \A t \in DOMAIN tripsData.trips \ {DetailTripId, r.trip} :
                   tripsData'.trips[t] = tripsData.trips[t]
             /\ tripsData'.temps = tripsData.temps]_vars

\* A move has succeeded and its patch is still in the list: one trip holds the
\* placeholder, another trip of the list is neither source nor target.
C25_Witness ==
    /\ lastSettled = [op |-> "move", ok |-> TRUE, terminal |-> FALSE]
    /\ refetchDue = invalidateTrip
    /\ \E t \in DOMAIN tripsData.trips \ {DetailTripId} :
          /\ tripsData.trips[t].blanks = 1
          /\ \E u \in DOMAIN tripsData.trips \ {DetailTripId, t} : tripsData.trips[u].blanks = 0


\* C26: a fetch raises the "route updated" banner only when a version above the
\* stored mark, up to the fetched one, came from another actor; the versions that
\* the screen's own mutations produced raise nothing.
C26_BannerOnlyForExternalChanges ==
    [][(fetchTick' # fetchTick /\ bannerRaised') =>
          \E v \in externalVersions :
             getLastSeenRouteVersion(screenTripId) < v /\ v <= tripRouteVersion']_vars


InFlightOn(screen) == \E m \in acceptInflight : m.screen = screen

TodayRendered ==
    todayRender = [addToTripOrderId |-> addToTripOrderId, isPending |-> isPending("today"),
                   lock |-> lockToday]

DetailRendered ==
    detailRender = [assigningOrderId |-> detailAssigning, addOrdersVisible |-> addOrdersVisible]

\* The screen offers an assign: the order rows' buttons, or the rows of the open picker.
TodayCanAssign ==
    \/ todayRender.lock = NoOrder /\ todayRender.addToTripOrderId = NoOrder /\ lockToday = NoOrder
    \/ TodayConfirmEnabled

\* C27: the lock of a screen is held only while an acceptOrder request of that screen
\* is in flight; the completion of a request, successful or failed, leaves the lock of
\* its screen free; a held lock is eventually free; and once nothing is in flight and
\* the screen has re-rendered, an assign is offered again.
C27_LockReleasedOnCompletion ==
    /\ [](lockToday # NoOrder => InFlightOn("today"))
    /\ [](detailAssigning # NoOrder => InFlightOn("detail"))
    /\ [][\A m \in acceptInflight \ acceptInflight' :
             IF m.screen = "today" THEN lockToday' = NoOrder
                                   ELSE detailAssigning' = NoOrder]_vars
    /\ (lockToday # NoOrder) ~> (lockToday = NoOrder)
    /\ (detailAssigning # NoOrder) ~> (detailAssigning = NoOrder)
    /\ []((~InFlightOn("today") /\ TodayRendered) => TodayCanAssign)
    /\ []((~InFlightOn("detail") /\ DetailRendered /\ addOrdersVisible) => DetailAddEnabled)

\* Requests of both screens have completed, the one of the detail screen with an error
\* (the sheet stayed open), and both screens offer an assign again.
C27_Witness ==
    /\ mutCount >= 2
    /\ acceptInflight = {}
    /\ curMut["today"] # NoMutation
    /\ curMut["detail"] # NoMutation
    /\ lockToday = NoOrder
    /\ detailAssigning = NoOrder
    /\ TodayRendered /\ TodayCanAssign
    /\ DetailRendered /\ addOrdersVisible /\ DetailAddEnabled


StartTrackingCalled ==
    \/ handleShareToggle(TRUE)
    \/ initializeTracking /\ shareLiveLocation /\ role = "Driver"

\* C28: with the location permission granted, a startTracking call on a stopped
\* tracker gets past requestPermissions, whatever start/stop cycles came before, and
\* the rest of the call leaves the tracker tracking.
C28_RestartAfterStop ==
    [][/\ (StartTrackingCalled /\ fgGranted /\ ~isTracking) =>
             startTrackingCalls' = startTrackingCalls + 1
       /\ (StartTrackingStep /\ fgGranted) => isTracking']_vars


\* C29: a sample that arrives while the transmission of an earlier sample is in
\* flight, less than the interval after it and nearer to it than the distance
\* threshold, is not transmitted. (Every transmission in flight before the first
\* interval has elapsed was issued less than an interval ago.)
C29_ThrottleCountsSampleInFlight ==
    [][\A pos \in Positions :
          (/\ handleLocationUpdate(pos)
           /\ shareLiveLocation
           /\ now < updateInterval
           /\ \E i \in DOMAIN sendsInFlight :
                 calculateDistance(sendsInFlight[i], pos) < distanceThreshold)
          => sendsInFlight' = sendsInFlight]_vars


====
